---- MODULE Spec2Model ----
(***************************************************************************)
(* A model of the mermaid-linter core: preprocessing, diagram-type         *)
(* detection, the parse orchestrator and the flowchart parser.             *)
(*                                                                         *)
(* Text is modelled as a sequence of lexical atoms.  An atom is a literal  *)
(* piece of source text (a keyword, an operator, a blank, a newline, one   *)
(* YAML line, the content of one directive ...); the text it stands for is *)
(* the concatenation of its atoms, and the byte length of an atom is the   *)
(* length of its literal.  Patterns of the code (regexes, find, trim,      *)
(* starts_with) are evaluated atom by atom.                                *)
(***************************************************************************)
EXTENDS Integers, Sequences, FiniteSets, TLC

VARIABLES
    api,          \* the entry point that was called
    source,       \* its `code` argument (a sequence of atoms)
    base_config,  \* options.base_config (an Option)
    pc,           \* position inside parse / the flowchart parser
    pre,          \* preprocess_result: [code, title, config] (None before)
    config,       \* the merged configuration of parse
    diagram_type, \* the detected DiagramType (NoneV before detection / None)
    code,         \* FlowchartParserImpl.source: the text the parser is given
    tokens,       \* FlowchartParserImpl.tokens
    pos,          \* FlowchartParserImpl.pos (0-based, as in the code)
    diagnostics,  \* FlowchartParserImpl.diagnostics
    root,         \* the root AstNode under construction (an Option)
    stmt,         \* the Edge statement parse_node_or_link builds (an Option)
    iter_start,   \* history: the cursor when the last loop iteration began
    skipped,      \* history: tokens consumed without a node or a diagnostic
    parse_result, \* the Result the diagram parser returned (an Option)
    result        \* the ParseResult returned by parse (an Option)

vars == <<api, source, base_config, pc, pre, config, diagram_type, code, tokens,
          pos, diagnostics, root, stmt, iter_start, skipped, parse_result,
          result>>

NoneV == "<none>"

\* Option<T> for structured T: the empty sequence, or the one-element sequence.
None == <<>>
Some(x) == <<x>>
IsSome(o) == o # <<>>
Unwrap(o) == o[1]

(***************************************************************************)
(* Sequence helpers.                                                       *)
(***************************************************************************)
Max(S) == CHOOSE x \in S : \A y \in S : y <= x
Min(S) == CHOOSE x \in S : \A y \in S : x <= y
Drop(s, n) == SubSeq(s, n + 1, Len(s))
Take(s, n) == SubSeq(s, 1, n)

RECURSIVE Flatten(_)
Flatten(ss) == IF ss = <<>> THEN <<>> ELSE Head(ss) \o Flatten(Tail(ss))

(***************************************************************************)
(* Character classes of atoms.                                             *)
(***************************************************************************)
IsNl(a) == a \in {"\n", "\r"}
IsWs(a) == a \in {" ", "\t", "\n", "\r"}

\* Atoms whose first character is a word character (\w).
WordAtoms ==
    {"graph", "GRAPH", "flowchart", "error", "ERROR", "Error", "mindmap",
     "architecture", "C4Context", "kanban", "classDiagram", "erDiagram",
     "gantt", "info", "pie", "requirement", "sequenceDiagram", "timeline",
     "gitGraph", "stateDiagram", "journey", "quadrantChart", "sankey",
     "packet", "xychart", "block", "radar", "treemap",
     "TD", "LR", "A", "B", "C", "x", "t", "1", "fill", "end", "subgraph", "style",
     "classDef", "class", "click", "linkStyle", "direction"}
WordStart(a) == a \in WordAtoms

\* Case folding: two atoms have the same fold iff they differ only in case.
Fold(a) ==
    CASE a \in {"ERROR", "Error"} -> "error"
      [] a = "GRAPH" -> "graph"
      [] OTHER -> a

\* The atoms that spell the sentinel strings of encode_entities, and the
\* byte length of an atom (the sentinel characters take 3, 2, 2 and 2 bytes).
IsEncodedAtom(a) ==
    a \in {"{fl-deg}quot{para-ss}", "{fl-deg}f9f{para-ss}",
           "{fl-deg-deg}35{para-ss}"}
ByteLen(a) ==
    CASE a = "{fl-deg}quot{para-ss}" -> 13
      [] a = "{fl-deg}f9f{para-ss}" -> 12
      [] a = "{fl-deg-deg}35{para-ss}" -> 13
      [] OTHER -> Len(a)

RECURSIVE TextLen(_)
TextLen(t) == IF t = <<>> THEN 0 ELSE ByteLen(Head(t)) + TextLen(Tail(t))

RECURSIVE TrimStart(_)
TrimStart(t) == IF t # <<>> /\ IsWs(Head(t)) THEN TrimStart(Tail(t)) ELSE t

RECURSIVE TrimEnd(_)
TrimEnd(t) ==
    IF t # <<>> /\ IsWs(t[Len(t)]) THEN TrimEnd(Take(t, Len(t) - 1)) ELSE t

Trim(t) == TrimEnd(TrimStart(t))

(***************************************************************************)
(* config/mod.rs                                                           *)
(***************************************************************************)
DefaultConfig ==
    [flowchart_renderer |-> NoneV, class_renderer |-> NoneV,
     state_renderer |-> NoneV, gantt_display_mode |-> NoneV,
     wrap |-> FALSE, layout |-> NoneV]

\* merge that assigns every field of `other`, set or not.
merge_overwrites(self, other) == other
\* merge with the bias reversed: a field of `self` that is set is kept.
merge_keeps_self(self, other) ==
    [flowchart_renderer |->
        IF self.flowchart_renderer # NoneV THEN self.flowchart_renderer
        ELSE other.flowchart_renderer,
     class_renderer |->
        IF self.class_renderer # NoneV THEN self.class_renderer
        ELSE other.class_renderer,
     state_renderer |->
        IF self.state_renderer # NoneV THEN self.state_renderer
        ELSE other.state_renderer,
     gantt_display_mode |->
        IF self.gantt_display_mode # NoneV THEN self.gantt_display_mode
        ELSE other.gantt_display_mode,
     wrap |-> IF other.wrap THEN TRUE ELSE self.wrap,
     layout |-> IF self.layout # NoneV THEN self.layout ELSE other.layout]

merge(self, other) ==
    [flowchart_renderer |->
        IF other.flowchart_renderer # NoneV THEN other.flowchart_renderer
        ELSE self.flowchart_renderer,
     class_renderer |->
        IF other.class_renderer # NoneV THEN other.class_renderer
        ELSE self.class_renderer,
     state_renderer |->
        IF other.state_renderer # NoneV THEN other.state_renderer
        ELSE self.state_renderer,
     gantt_display_mode |->
        IF other.gantt_display_mode # NoneV THEN other.gantt_display_mode
        ELSE self.gantt_display_mode,
     wrap |-> IF other.wrap THEN TRUE ELSE self.wrap,
     layout |-> IF other.layout # NoneV THEN other.layout ELSE self.layout]

(***************************************************************************)
(* preprocess/normalize.rs                                                 *)
(***************************************************************************)
RECURSIVE ReplaceCrLf(_)
ReplaceCrLf(t) ==
    IF t = <<>> THEN <<>>
    ELSE IF Len(t) >= 2 /\ t[1] = "\r" /\ t[2] = "\n"
         THEN <<"\n">> \o ReplaceCrLf(Drop(t, 2))
         ELSE <<t[1]>> \o ReplaceCrLf(Tail(t))

\* The only HTML start tag among the atoms, with its attribute requoted.
RequoteTag(a) == IF a = "<i class=\"x\">" THEN "<i class='x'>" ELSE a

normalize_text(text) ==
    LET lf == ReplaceCrLf(text)
        nl == [i \in 1..Len(lf) |-> IF lf[i] = "\r" THEN "\n" ELSE lf[i]]
    IN  [i \in 1..Len(nl) |-> RequoteTag(nl[i])]

(***************************************************************************)
(* preprocess/frontmatter.rs                                               *)
(***************************************************************************)
\* Index of the last atom of the maximal whitespace run starting at i
\* (i - 1 when the run is empty).
RECURSIVE WsRunEnd(_, _)
WsRunEnd(t, i) ==
    IF i <= Len(t) /\ IsWs(t[i]) THEN WsRunEnd(t, i + 1) ELSE i - 1

\* [\n\r]-{3}\s*[\n\r]+ matches at c.
FmCloseAt(t, c) ==
    /\ c + 1 <= Len(t)
    /\ IsNl(t[c])
    /\ t[c + 1] = "---"
    /\ \E k \in (c + 2)..WsRunEnd(t, c + 2) : IsNl(t[k])

\* ^-{3}\s*[\n\r] : the candidates for the newline that ends the opening line.
FmOpeners(t) ==
    IF Len(t) >= 1 /\ t[1] = "---"
    THEN {n \in 2..WsRunEnd(t, 2) : IsNl(t[n])}
    ELSE {}

\* FRONTMATTER_REGEX.captures(text): None, or the capture and the match end.
\* \s* is greedy (the last opener that lets the rest match), the capture is
\* lazy (the first closer after it), the final \s*[\n\r]+ runs to the last
\* newline of the whitespace after the closing dashes.
FRONTMATTER_REGEX(t) ==
    LET ok == {n \in FmOpeners(t) : \E c \in (n + 1)..Len(t) : FmCloseAt(t, c)}
    IN  IF ok = {} THEN None
        ELSE LET n == Max(ok)
                 c == Min({d \in (n + 1)..Len(t) : FmCloseAt(t, d)})
                 e == Max({k \in (c + 2)..WsRunEnd(t, c + 2) : IsNl(t[k])})
             IN  Some([content |-> SubSeq(t, n + 1, c - 1), end |-> e])

\* The YAML lines among the atoms: what each contributes to the root mapping.
YamlTitle(a) == IF a = "title: T" THEN "T" ELSE NoneV
YamlDisplayMode(a) == IF a = "displayMode: compact" THEN "compact" ELSE NoneV
\* serde_yaml::from_value of the `config` entry (None: no such entry, or a
\* value that does not deserialize).
YamlConfig(a) ==
    CASE a = "config: {flowchart: {defaultRenderer: elk}}" ->
            Some([DefaultConfig EXCEPT !.flowchart_renderer = "elk"])
      [] a = "config: {flowchart: {defaultRenderer: dagre-wrapper}}" ->
            Some([DefaultConfig EXCEPT !.flowchart_renderer = "dagre-wrapper"])
      [] a = "config: {layout: elk, wrap: true}" ->
            Some([DefaultConfig EXCEPT !.layout = "elk", !.wrap = TRUE])
      [] a = "config: {gantt: {displayMode: wide}}" ->
            Some([DefaultConfig EXCEPT !.gantt_display_mode = "wide"])
      [] OTHER -> None
YamlKeyLines ==
    {"title: T", "displayMode: compact",
     "config: {flowchart: {defaultRenderer: elk}}",
     "config: {flowchart: {defaultRenderer: dagre-wrapper}}",
     "config: {layout: elk, wrap: true}",
     "config: {gantt: {displayMode: wide}}",
     "config: 5"}
YamlKey(a) ==
    CASE a = "title: T" -> "title"
      [] a = "displayMode: compact" -> "displayMode"
      [] OTHER -> "config"

\* serde_yaml::from_str(yaml_content): "error", "other" (a root that is no
\* mapping: null for an empty document, a scalar) or "mapping".
YamlRoot(content) ==
    LET items == SelectSeq(content, LAMBDA a : ~IsWs(a))
    IN  IF items = <<>> THEN "other"
        ELSE IF \A i \in 1..Len(items) : items[i] \in YamlKeyLines
        THEN IF \E i, j \in 1..Len(items) :
                    i # j /\ YamlKey(items[i]) = YamlKey(items[j])
             THEN "error"     \* duplicate key
             ELSE "mapping"
        ELSE IF Len(items) = 1 /\ items[1] = "x" THEN "other"
        ELSE "error"

\* The `pick` value among the lines of the mapping, `none` without one.
YamlGet(content, pick(_), none) ==
    LET hits == {i \in 1..Len(content) : pick(content[i]) # none}
    IN  IF hits = {} THEN none ELSE pick(content[Min(hits)])

FrontmatterDefault(text) ==
    [text |-> text, title |-> NoneV, display_mode |-> NoneV,
     config |-> DefaultConfig]

\* extract_frontmatter that removes the block also when the YAML fails to
\* parse.
extract_frontmatter_strips_on_error(text) ==
    LET caps == FRONTMATTER_REGEX(text)
    IN  IF caps = None THEN FrontmatterDefault(text)
        ELSE LET rest == Drop(text, Unwrap(caps).end)
                 content == Unwrap(caps).content
                 yaml == YamlRoot(content)
                 cfg  == YamlGet(content, YamlConfig, None)
             IN  CASE yaml \in {"error", "other"} -> FrontmatterDefault(rest)
                   [] OTHER ->
                        [text |-> rest,
                         title |-> YamlGet(content, YamlTitle, NoneV),
                         display_mode |-> YamlGet(content, YamlDisplayMode, NoneV),
                         config |-> IF cfg = None THEN DefaultConfig
                                    ELSE Unwrap(cfg)]
extract_frontmatter(text) ==
    LET caps == FRONTMATTER_REGEX(text)
    IN  IF caps = None THEN FrontmatterDefault(text)
        ELSE LET rest == Drop(text, Unwrap(caps).end)
                 content == Unwrap(caps).content
                 yaml == YamlRoot(content)
                 cfg  == YamlGet(content, YamlConfig, None)
             IN  CASE yaml = "error" -> FrontmatterDefault(text)
                   [] yaml = "other" -> FrontmatterDefault(rest)
                   [] OTHER ->
                        [text |-> rest,
                         title |-> YamlGet(content, YamlTitle, NoneV),
                         display_mode |-> YamlGet(content, YamlDisplayMode, NoneV),
                         config |-> IF cfg = None THEN DefaultConfig
                                    ELSE Unwrap(cfg)]

(***************************************************************************)
(* preprocess/directive.rs                                                 *)
(***************************************************************************)
\* The spans (first atom, last atom) of the %%{ ... }%% blocks at or after pos.
RECURSIVE find_directive_spans(_, _)
find_directive_spans(text, from) ==
    LET opens == {i \in from..Len(text) : text[i] = "%%{"}
    IN  IF opens = {} THEN <<>>
        ELSE LET s == Min(opens)
                 closes == {i \in s..Len(text) : text[i] = "}%%"}
             IN  IF closes = {} THEN find_directive_spans(text, s + 1)
                 ELSE <<<<s, Min(closes)>>>>
                        \o find_directive_spans(text, Min(closes) + 1)

\* DirectiveType::from_str of the word that opens the directive content.
DirectiveType(a) ==
    CASE a \in {"init: {\"flowchart\":{\"defaultRenderer\":\"elk\"}}",
                "init: {\"flowchart\":{\"defaultRenderer\":\"dagre-wrapper\"}}",
                "initialize: {\"layout\":\"elk\"}",
                "init: {\"wrap\":false}",
                "init: {bad"} -> "Init"
      [] a = "wrap" -> "Wrap"
      [] OTHER -> "Unknown"

\* The MermaidConfig an init payload deserializes to (None: the payload is
\* no JSON object, or does not deserialize).
DirectiveArgs(a) ==
    CASE a = "init: {\"flowchart\":{\"defaultRenderer\":\"elk\"}}" ->
            Some([DefaultConfig EXCEPT !.flowchart_renderer = "elk"])
      [] a = "init: {\"flowchart\":{\"defaultRenderer\":\"dagre-wrapper\"}}" ->
            Some([DefaultConfig EXCEPT !.flowchart_renderer = "dagre-wrapper"])
      [] a = "initialize: {\"layout\":\"elk\"}" ->
            Some([DefaultConfig EXCEPT !.layout = "elk"])
      [] a = "init: {\"wrap\":false}" -> Some(DefaultConfig)
      [] OTHER -> None

\* parse_directive_content: the content matches DIRECTIVE_CONTENT_REGEX when it
\* is one directive atom, blanks around it allowed ('.' matches no newline).
parse_directive_content(content) ==
    LET items == SelectSeq(content, LAMBDA a : a \notin {" ", "\t"})
    IN  IF Len(items) = 1 /\ ~IsWs(items[1]) /\ items[1] \notin {"%%{", "---"}
        THEN Some([directive_type |-> DirectiveType(items[1]),
                   args |-> DirectiveArgs(items[1])])
        ELSE None

RECURSIVE MergeAll(_, _)
MergeAll(acc, configs) ==
    IF configs = <<>> THEN acc
    ELSE MergeAll(merge(acc, Head(configs)), Tail(configs))

RECURSIVE RemoveSpans(_, _)
RemoveSpans(text, spans) ==
    IF spans = <<>> THEN text
    ELSE LET sp == spans[Len(spans)]
         IN  RemoveSpans(Take(text, sp[1] - 1) \o Drop(text, sp[2]),
                         Take(spans, Len(spans) - 1))

\* String::replace_range: the bytes on both sides of a removed range become
\* adjacent, so a "%%" that is followed by "{" now reads as the opener "%%{".
RECURSIVE Rejoin(_)
Rejoin(t) ==
    IF Len(t) < 2 THEN t
    ELSE IF t[1] = "%%" /\ t[2] = "{"
         THEN <<"%%{">> \o Rejoin(Drop(t, 2))
         ELSE <<t[1]>> \o Rejoin(Tail(t))

extract_directives(text) ==
    LET spans == find_directive_spans(text, 1)
        dirs  == [i \in 1..Len(spans) |->
                    parse_directive_content(
                        SubSeq(text, spans[i][1] + 1, spans[i][2] - 1))]
        inits == SelectSeq(dirs, LAMBDA d :
                    /\ IsSome(d)
                    /\ Unwrap(d).directive_type = "Init"
                    /\ IsSome(Unwrap(d).args))
        init_configs == [i \in 1..Len(inits) |-> Unwrap(Unwrap(inits[i]).args)]
    IN  [text |-> Rejoin(RemoveSpans(text, spans)),
         config |-> MergeAll(DefaultConfig, init_configs),
         wrap |-> \E i \in 1..Len(dirs) :
                    IsSome(dirs[i]) /\ Unwrap(dirs[i]).directive_type = "Wrap"]

(***************************************************************************)
(* preprocess/comments.rs                                                  *)
(***************************************************************************)
\* str::lines(): the pieces between newlines, without a final empty piece.
RECURSIVE Lines(_)
Lines(t) ==
    LET nls == {i \in 1..Len(t) : t[i] = "\n"}
    IN  IF t = <<>> THEN <<>>
        ELSE IF nls = {} THEN <<t>>
        ELSE <<Take(t, Min(nls) - 1)>> \o Lines(Drop(t, Min(nls)))

IsCommentAtom(a) == a \in {"%% note", "%%"}

is_comment(line) ==
    LET trimmed == TrimStart(line)
    IN  trimmed # <<>> /\ IsCommentAtom(trimmed[1])

RECURSIVE JoinLines(_)
JoinLines(ls) ==
    IF ls = <<>> THEN <<>>
    ELSE IF Len(ls) = 1 THEN ls[1]
    ELSE ls[1] \o <<"\n">> \o JoinLines(Tail(ls))

remove_comments(text) ==
    LET kept == SelectSeq(Lines(text), LAMBDA l : ~is_comment(l))
        res  == JoinLines(kept)
    IN  IF text # <<>> /\ text[Len(text)] = "\n" /\ res # <<>>
        THEN res \o <<"\n">>
        ELSE res

(***************************************************************************)
(* preprocess/preprocessor.rs                                              *)
(***************************************************************************)
preprocess(text) ==
    LET normalized == normalize_text(text)
        frontmatter_result == extract_frontmatter(normalized)
        config0 == IF frontmatter_result.display_mode # NoneV
                   THEN [frontmatter_result.config EXCEPT
                            !.gantt_display_mode = frontmatter_result.display_mode]
                   ELSE frontmatter_result.config
        directive_result == extract_directives(frontmatter_result.text)
        config1 == merge(config0, directive_result.config)
        config2 == IF directive_result.wrap
                   THEN [config1 EXCEPT !.wrap = TRUE] ELSE config1
    IN  [code |-> remove_comments(directive_result.text),
         title |-> frontmatter_result.title,
         config |-> config2]

(***************************************************************************)
(* detector/detectors.rs                                                   *)
(***************************************************************************)
\* (?i)^\s*<pat>\b : after leading whitespace the atoms of pat follow, case
\* folded, and the next atom (if any) does not start with a word character.
is_match(pat, text) ==
    LET t == TrimStart(text)
    IN  /\ Len(t) >= Len(pat)
        /\ \A i \in 1..Len(pat) : Fold(t[i]) = pat[i]
        /\ Len(t) > Len(pat) => ~WordStart(t[Len(pat) + 1])

RE_GRAPH == <<"graph">>
RE_FLOWCHART == <<"flowchart">>
RE_FLOWCHART_ELK == <<"flowchart", "-elk">>
RE_SEQUENCE == <<"sequenceDiagram">>
RE_CLASS == <<"classDiagram">>
RE_CLASS_V2 == <<"classDiagram", "-v2">>
RE_STATE == <<"stateDiagram">>
RE_STATE_V2 == <<"stateDiagram", "-v2">>
RE_ER == <<"erDiagram">>
RE_GANTT == <<"gantt">>
RE_JOURNEY == <<"journey">>
RE_REQUIREMENT == <<"requirement">>
RE_GITGRAPH == <<"gitGraph">>
RE_XYCHART == <<"xychart">>
RE_QUADRANT == <<"quadrantChart">>
RE_C4 == <<"C4Context">>
RE_PACKET == <<"packet">>
RE_TREEMAP == <<"treemap">>
RE_SANKEY == <<"sankey">>
RE_KANBAN == <<"kanban">>
RE_BLOCK == <<"block">>
RE_RADAR == <<"radar">>
RE_PIE == <<"pie">>
RE_INFO == <<"info">>
RE_TIMELINE == <<"timeline">>
RE_MINDMAP == <<"mindmap">>
RE_ARCHITECTURE == <<"architecture">>

\* The error rule as a prefix rule: the text only has to begin with `error`.
IsErrorLiteral_prefix(text) == text # <<>> /\ Fold(text[1]) = "error"
\* text.to_lowercase() == "error"
IsErrorLiteral(text) == Len(text) = 1 /\ Fold(text[1]) = "error"

\* text.trim_start().starts_with("---")
StartsWithDashes(text) ==
    LET t == TrimStart(text) IN t # <<>> /\ t[1] \in {"---", "----"}

\* detect_type with each general rule tried before its special case:
\* flowchart before flowchart-elk, classDiagram before classDiagram-v2,
\* stateDiagram before stateDiagram-v2.
detect_type_general_first(text0, cfg) ==
    LET text == Trim(text0)
    IN  IF IsErrorLiteral(text) THEN "Error"
        ELSE IF StartsWithDashes(text) THEN "BadFrontmatter"
        ELSE IF is_match(RE_MINDMAP, text) THEN "Mindmap"
        ELSE IF is_match(RE_ARCHITECTURE, text) THEN "Architecture"
        ELSE IF is_match(RE_C4, text) THEN "C4"
        ELSE IF is_match(RE_KANBAN, text) THEN "Kanban"
        ELSE IF is_match(RE_CLASS, text)
             THEN IF cfg.class_renderer = "dagre-wrapper" THEN "ClassDiagram"
                  ELSE "Class"
        ELSE IF is_match(RE_CLASS_V2, text) THEN "ClassDiagram"
        ELSE IF is_match(RE_ER, text) THEN "Er"
        ELSE IF is_match(RE_GANTT, text) THEN "Gantt"
        ELSE IF is_match(RE_INFO, text) THEN "Info"
        ELSE IF is_match(RE_PIE, text) THEN "Pie"
        ELSE IF is_match(RE_REQUIREMENT, text) THEN "Requirement"
        ELSE IF is_match(RE_SEQUENCE, text) THEN "Sequence"
        ELSE IF is_match(RE_FLOWCHART, text)
             THEN IF cfg.flowchart_renderer = "elk" \/ cfg.layout = "elk"
                  THEN "FlowchartElk" ELSE "FlowchartV2"
        ELSE IF is_match(RE_FLOWCHART_ELK, text) THEN "FlowchartElk"
        ELSE IF is_match(RE_GRAPH, text)
             THEN IF cfg.flowchart_renderer = "elk" THEN "FlowchartElk"
                  ELSE IF cfg.flowchart_renderer = "dagre-wrapper"
                       THEN "FlowchartV2"
                  ELSE "Flowchart"
        ELSE IF is_match(RE_TIMELINE, text) THEN "Timeline"
        ELSE IF is_match(RE_GITGRAPH, text) THEN "GitGraph"
        ELSE IF is_match(RE_STATE, text)
             THEN IF cfg.state_renderer = "dagre-wrapper" THEN "StateDiagram"
                  ELSE "State"
        ELSE IF is_match(RE_STATE_V2, text) THEN "StateDiagram"
        ELSE IF is_match(RE_JOURNEY, text) THEN "Journey"
        ELSE IF is_match(RE_QUADRANT, text) THEN "QuadrantChart"
        ELSE IF is_match(RE_SANKEY, text) THEN "Sankey"
        ELSE IF is_match(RE_PACKET, text) THEN "Packet"
        ELSE IF is_match(RE_XYCHART, text) THEN "XyChart"
        ELSE IF is_match(RE_BLOCK, text) THEN "Block"
        ELSE IF is_match(RE_RADAR, text) THEN "Radar"
        ELSE IF is_match(RE_TREEMAP, text) THEN "Treemap"
        ELSE NoneV

\* The rules are tried in the order of the code; the first that matches
\* returns.
detect_type(text0, cfg) ==
    LET text == Trim(text0)
    IN  IF IsErrorLiteral(text) THEN "Error"
        ELSE IF StartsWithDashes(text) THEN "BadFrontmatter"
        ELSE IF is_match(RE_FLOWCHART_ELK, text) THEN "FlowchartElk"
        ELSE IF is_match(RE_MINDMAP, text) THEN "Mindmap"
        ELSE IF is_match(RE_ARCHITECTURE, text) THEN "Architecture"
        ELSE IF is_match(RE_C4, text) THEN "C4"
        ELSE IF is_match(RE_KANBAN, text) THEN "Kanban"
        ELSE IF is_match(RE_CLASS_V2, text) THEN "ClassDiagram"
        ELSE IF is_match(RE_CLASS, text)
             THEN IF cfg.class_renderer = "dagre-wrapper" THEN "ClassDiagram"
                  ELSE "Class"
        ELSE IF is_match(RE_ER, text) THEN "Er"
        ELSE IF is_match(RE_GANTT, text) THEN "Gantt"
        ELSE IF is_match(RE_INFO, text) THEN "Info"
        ELSE IF is_match(RE_PIE, text) THEN "Pie"
        ELSE IF is_match(RE_REQUIREMENT, text) THEN "Requirement"
        ELSE IF is_match(RE_SEQUENCE, text) THEN "Sequence"
        ELSE IF is_match(RE_FLOWCHART, text)
             THEN IF cfg.flowchart_renderer = "elk" \/ cfg.layout = "elk"
                  THEN "FlowchartElk" ELSE "FlowchartV2"
        ELSE IF is_match(RE_GRAPH, text)
             THEN IF cfg.flowchart_renderer = "elk" THEN "FlowchartElk"
                  ELSE IF cfg.flowchart_renderer = "dagre-wrapper"
                       THEN "FlowchartV2"
                  ELSE "Flowchart"
        ELSE IF is_match(RE_TIMELINE, text) THEN "Timeline"
        ELSE IF is_match(RE_GITGRAPH, text) THEN "GitGraph"
        ELSE IF is_match(RE_STATE_V2, text) THEN "StateDiagram"
        ELSE IF is_match(RE_STATE, text)
             THEN IF cfg.state_renderer = "dagre-wrapper" THEN "StateDiagram"
                  ELSE "State"
        ELSE IF is_match(RE_JOURNEY, text) THEN "Journey"
        ELSE IF is_match(RE_QUADRANT, text) THEN "QuadrantChart"
        ELSE IF is_match(RE_SANKEY, text) THEN "Sankey"
        ELSE IF is_match(RE_PACKET, text) THEN "Packet"
        ELSE IF is_match(RE_XYCHART, text) THEN "XyChart"
        ELSE IF is_match(RE_BLOCK, text) THEN "Block"
        ELSE IF is_match(RE_RADAR, text) THEN "Radar"
        ELSE IF is_match(RE_TREEMAP, text) THEN "Treemap"
        ELSE NoneV

\* detector/mod.rs: DiagramType::needs_entity_encoding
needs_entity_encoding(dt) == dt \in {"Flowchart", "FlowchartV2", "FlowchartElk"}

(***************************************************************************)
(* preprocess/normalize.rs: encode_entities                                *)
(***************************************************************************)
\* Atoms that are a '#' followed by word characters.
IsHashAtom(a) == a \in {"#f9f", "#quot", "#35"}

\* format!("ﬂ°{}¶ß", inner), and format!("ﬂ°°{}¶ß", inner) when inner is all
\* digits.  The sentinel characters are not ASCII; the atoms "{fl-deg}",
\* "{fl-deg-deg}" and "{para-ss}" spell them, and ByteLen gives the length
\* of the UTF-8 strings they stand for.
EncodedEntity(a) ==
    CASE a = "#quot" -> "{fl-deg}quot{para-ss}"
      [] a = "#f9f"  -> "{fl-deg}f9f{para-ss}"
      [] a = "#35"   -> "{fl-deg-deg}35{para-ss}"

\* One pass of style_regex / classdef_regex with replace_all, from atom
\* `from` on: kw[^;]*:\S*#[^;]*;  The leftmost match is replaced by itself
\* without its last character, and the search resumes after the match.
\* [^;]* and \S* are greedy: the last ':' that lets the rest match, then the
\* last '#' that lets the rest match; the match ends at the first ';' after
\* that '#'.
StyleHashes(t, j) ==
    {k \in (j + 1)..Len(t) :
        /\ IsHashAtom(t[k])
        /\ \A l \in (j + 1)..(k - 1) : ~IsWs(t[l])
        /\ \E m \in (k + 1)..Len(t) : t[m] = ";"}
StyleColons(t, i) ==
    {j \in (i + 1)..Len(t) :
        /\ t[j] = ":"
        /\ \A l \in (i + 1)..(j - 1) : t[l] # ";"
        /\ StyleHashes(t, j) # {}}
StyleMatchEnd(t, i) ==
    LET k == Max(StyleHashes(t, Max(StyleColons(t, i))))
    IN  Min({m \in (k + 1)..Len(t) : t[m] = ";"})

RECURSIVE StripStyleSemicolons(_, _, _)
StripStyleSemicolons(t, kw, from) ==
    LET starts == {i \in from..Len(t) : t[i] = kw /\ StyleColons(t, i) # {}}
    IN  IF starts = {} THEN t
        ELSE LET m == StyleMatchEnd(t, Min(starts))
             IN  StripStyleSemicolons(Take(t, m - 1) \o Drop(t, m), kw, m)

\* entity_regex with replace_all: #(\w+);
RECURSIVE EncodeHashEntities(_)
EncodeHashEntities(t) ==
    IF t = <<>> THEN <<>>
    ELSE IF Len(t) >= 2 /\ IsHashAtom(t[1]) /\ t[2] = ";"
         THEN <<EncodedEntity(t[1])>> \o EncodeHashEntities(Drop(t, 2))
         ELSE <<t[1]>> \o EncodeHashEntities(Tail(t))

encode_entities(text) ==
    EncodeHashEntities(
        StripStyleSemicolons(StripStyleSemicolons(text, "style", 1),
                             "classDef", 1))

(***************************************************************************)
(* diagrams/flowchart/lexer.rs                                             *)
(***************************************************************************)
\* The FlowToken an atom lexes to (keywords ignore case; among the patterns
\* that match the whole atom the keyword and the direction value come before
\* Identifier, and Text comes last).
IdentifierAtoms ==
    WordAtoms \ {"graph", "GRAPH", "flowchart", "subgraph", "end", "direction",
                 "style", "classDef", "class", "click", "linkStyle",
                 "TD", "LR", "1"}
FlowToken(a) ==
    CASE Fold(a) = "graph" -> "Graph"
      [] a = "flowchart" -> "Flowchart"
      [] a = "subgraph" -> "Subgraph"
      [] a = "end" -> "End"
      [] a = "direction" -> "Direction"
      [] a = "style" -> "Style"
      [] a = "classDef" -> "ClassDef"
      [] a = "class" -> "Class"
      [] a = "click" -> "Click"
      [] a = "linkStyle" -> "LinkStyle"
      [] a \in {"TD", "LR"} -> "DirectionValue"
      [] a = "-->" -> "Arrow"
      [] a = "---" -> "Line"
      [] a = "-.-" -> "DottedLine"
      [] a = "-.->" -> "DottedArrow"
      [] a = "==>" -> "ThickArrow"
      [] a = "===" -> "ThickLine"
      [] a = "~~~" -> "Invisible"
      [] a = "--" -> "DoubleDash"
      [] a = "-." -> "DashDot"
      [] a = "==" -> "DoubleEqual"
      [] a = "[" -> "LBracket"
      [] a = "]" -> "RBracket"
      [] a = "(" -> "LParen"
      [] a = ")" -> "RParen"
      [] a = "{" -> "LBrace"
      [] a = "}" -> "RBrace"
      [] a = "((" -> "LDoubleParen"
      [] a = "))" -> "RDoubleParen"
      [] a = "([" -> "LParenBracket"
      [] a = "])" -> "RBracketParen"
      [] a = "[[" -> "LDoubleBracket"
      [] a = "]]" -> "RDoubleBracket"
      [] a = "[(" -> "LBracketParen"
      [] a = ")]" -> "RParenBracket"
      [] a = "{{" -> "LDoubleBrace"
      [] a = "}}" -> "RDoubleBrace"
      [] a = ">" -> "GreaterThan"
      [] a = "|" -> "Pipe"
      [] a = ":" -> "Colon"
      [] a = ";" -> "Semicolon"
      [] a = "," -> "Comma"
      [] a = "&" -> "Ampersand"
      [] a = "\n" -> "Newline"
      [] a = "\"t\"" -> "DoubleQuotedString"
      [] a = "1" -> "Number"
      [] a \in IdentifierAtoms -> "Identifier"
      [] IsHashAtom(a) \/ IsEncodedAtom(a) -> "Text"

\* The tokens of one atom that starts at byte `off`.  Blanks are skipped; the
\* '-' of "-elk" and "-v2" matches no pattern and is skipped as an invalid
\* token, the rest is an Identifier.
AtomTokens(a, off) ==
    CASE a \in {" ", "\t"} -> <<>>
      [] a = "-elk" ->
            <<[kind |-> "Identifier", span |-> [start |-> off + 1, end |-> off + 4],
               text |-> "elk"]>>
      [] a = "-v2" ->
            <<[kind |-> "Identifier", span |-> [start |-> off + 1, end |-> off + 3],
               text |-> "v2"]>>
      [] OTHER ->
            <<[kind |-> FlowToken(a),
               span |-> [start |-> off, end |-> off + ByteLen(a)],
               text |-> a]>>

RECURSIVE TokenizeFrom(_, _)
TokenizeFrom(t, off) ==
    IF t = <<>> THEN <<>>
    ELSE AtomTokens(Head(t), off) \o TokenizeFrom(Tail(t), off + ByteLen(Head(t)))

tokenize(source_text) == TokenizeFrom(source_text, 0)

(***************************************************************************)
(* ast/mod.rs and diagnostic/mod.rs                                        *)
(***************************************************************************)
Span(start, end) == [start |-> start, end |-> end]

\* AstNode::new / AstNode::with_text; add_property appends to `properties`,
\* add_child to `children`.
AstNode(kind, span, text) ==
    [kind |-> kind, span |-> span, text |-> text, properties |-> <<>>,
     children |-> <<>>]
\* add_property that drops the property.
add_property_dropped(node, key, value) == node
add_property(node, key, value) ==
    [node EXCEPT !.properties = Append(@, <<key, value>>)]
add_child(node, child) == [node EXCEPT !.children = Append(@, child)]

\* Diagnostic::new / Diagnostic::error; the code is kept as its E-number and
\* the diagram type starts as None.
Diagnostic(dcode, severity, span) ==
    [code |-> dcode, severity |-> severity, span |-> span,
     diagram_type |-> NoneV]
\* The code next to UnknownDiagram in DiagnosticCode (PreprocessError).
UnknownDiagram_as_E002 == "E002"
UnknownDiagram == "E001"
FrontmatterParseError == "E101"
ParserError == "E301"
ExpectedToken == "E303"
is_error(d) == d.severity = "Error"

(***************************************************************************)
(* diagrams/flowchart/parser.rs: FlowchartParserImpl.  A parser state p is *)
(* the record [tokens, pos, len, diagnostics], len being source.len().     *)
(* Every operator that advances returns the new state; an operator that    *)
(* also produces a value returns [p |-> state, v |-> value].               *)
(***************************************************************************)
is_at_end(p) == p.pos >= Len(p.tokens)
peek(p) == p.tokens[p.pos + 1]
check(p, kind) == ~is_at_end(p) /\ peek(p).kind = kind
advance(p) == IF ~is_at_end(p) THEN [p EXCEPT !.pos = @ + 1] ELSE p
\* current_span with the end of the input taken one byte too far.
current_span_past_end(p) ==
    IF is_at_end(p) THEN Span(p.len + 1, p.len + 1) ELSE peek(p).span
current_span(p) == IF is_at_end(p) THEN Span(p.len, p.len) ELSE peek(p).span
previous_span(p) == IF p.pos > 0 THEN p.tokens[p.pos].span ELSE Span(0, 0)
\* push that puts the diagnostic at the front of the list.
push_front(p, d) == [p EXCEPT !.diagnostics = <<d>> \o @]
push(p, d) == [p EXCEPT !.diagnostics = Append(@, d)]
expect(p, kind) ==
    IF check(p, kind) THEN advance(p)
    ELSE push(p, Diagnostic(ExpectedToken, "Error", current_span(p)))

RECURSIVE skip_newlines(_)
skip_newlines(p) ==
    IF check(p, "Newline") \/ check(p, "Semicolon")
    THEN skip_newlines(advance(p)) ELSE p

RECURSIVE SkipLine(_)
SkipLine(p) ==
    IF ~is_at_end(p) /\ ~check(p, "Newline") THEN SkipLine(advance(p)) ELSE p
skip_to_newline(p) ==
    LET q == SkipLine(p) IN IF check(q, "Newline") THEN advance(q) ELSE q

\* &quoted[1..quoted.len() - 1] of the quoted atoms, and str::trim of a label.
\* No token text begins or ends with a blank, so only a label that is empty
\* or made of token texts reaches trim.
Unquote(a) == IF a = "\"t\"" THEN "t" ELSE a
TrimStr(s) == s

IsLabelCloser(p) ==
    \/ check(p, "RBracket") \/ check(p, "RParen") \/ check(p, "RBrace")
    \/ check(p, "RDoubleParen") \/ check(p, "RDoubleBracket")
    \/ check(p, "RDoubleBrace") \/ check(p, "RBracketParen")
    \/ check(p, "RParenBracket")

RECURSIVE LabelLoop(_, _)
LabelLoop(p, label) ==
    IF is_at_end(p) \/ IsLabelCloser(p) THEN [p |-> p, v |-> label]
    ELSE IF check(p, "DoubleQuotedString") \/ check(p, "SingleQuotedString")
         THEN LabelLoop(advance(p), label \o Unquote(peek(p).text))
         ELSE LabelLoop(advance(p), label \o peek(p).text)
parse_label_content(p) ==
    LET r == LabelLoop(p, "") IN [p |-> r.p, v |-> TrimStr(r.v)]

\* The empty-label diagnostic put at the cursor (the closer) and not at the
\* opening delimiter.
EmptyLabelCheck_at_cursor(r, start_span) ==
    IF r.v = "" THEN push(r.p, Diagnostic(ParserError, "Error", current_span(r.p)))
    ELSE r.p
\* One delimited shape of parse_node_shape_and_label: the opener is consumed,
\* the label read, an empty label reported at the opener, the closer expected.
EmptyLabelCheck(r, start_span) ==
    IF r.v = "" THEN push(r.p, Diagnostic(ParserError, "Error", start_span))
    ELSE r.p
ShapeResult(r, start_span, closer, shape) ==
    [p |-> expect(EmptyLabelCheck(r, start_span), closer),
     v |-> [shape |-> shape, label |-> r.v]]
DelimitedShape(p, closer, shape) ==
    ShapeResult(parse_label_content(advance(p)), current_span(p), closer, shape)

DoubleCircle(r, start_span) ==
    [p |-> expect(expect(EmptyLabelCheck(r, start_span), "RParen"),
                  "RDoubleParen"),
     v |-> [shape |-> "DoubleCircle", label |-> r.v]]

parse_node_shape_and_label(p) ==
    IF check(p, "LDoubleParen")
    THEN IF check(advance(p), "LParen")
         THEN DoubleCircle(parse_label_content(advance(advance(p))),
                           current_span(p))
         ELSE DelimitedShape(p, "RDoubleParen", "Circle")
    ELSE IF check(p, "LDoubleBracket")
    THEN DelimitedShape(p, "RDoubleBracket", "Subroutine")
    ELSE IF check(p, "LDoubleBrace")
    THEN DelimitedShape(p, "RDoubleBrace", "Hexagon")
    ELSE IF check(p, "LParenBracket")
    THEN DelimitedShape(p, "RBracketParen", "Stadium")
    ELSE IF check(p, "LBracketParen")
    THEN DelimitedShape(p, "RParenBracket", "Cylindrical")
    ELSE IF check(p, "LBracket")
    THEN DelimitedShape(p, "RBracket", "Rectangle")
    ELSE IF check(p, "LParen")
    THEN DelimitedShape(p, "RParen", "RoundedRect")
    ELSE IF check(p, "LBrace")
    THEN DelimitedShape(p, "RBrace", "Rhombus")
    ELSE IF check(p, "GreaterThan")
    THEN DelimitedShape(p, "RBracket", "Asymmetric")
    ELSE [p |-> p, v |-> [shape |-> "Rectangle", label |-> NoneV]]

\* The node parse_node builds from the id token and the shape result r.
NodeOf(start, id, r) ==
    LET n0 == AstNode("Node", Span(start, previous_span(r.p).end), id)
        n1 == add_property(add_property(n0, "id", id), "shape", r.v.shape)
    IN  [p |-> r.p,
         v |-> Some(IF r.v.label # NoneV
                    THEN add_property(n1, "label", r.v.label) ELSE n1)]
parse_node(p) ==
    IF check(p, "Identifier") \/ check(p, "Number")
    THEN NodeOf(current_span(p).start, peek(p).text,
                parse_node_shape_and_label(advance(p)))
    ELSE [p |-> p, v |-> None]

is_link_start(p) ==
    \/ check(p, "Arrow") \/ check(p, "Line") \/ check(p, "DottedLine")
    \/ check(p, "DottedArrow") \/ check(p, "ThickArrow")
    \/ check(p, "ThickLine") \/ check(p, "Invisible")
    \/ check(p, "DoubleDash") \/ check(p, "DashDot")
    \/ check(p, "DoubleEqual")

RECURSIVE EdgeLabelLoop(_, _)
EdgeLabelLoop(p, label) ==
    IF /\ ~is_at_end(p) /\ ~check(p, "Arrow") /\ ~check(p, "Line")
       /\ ~check(p, "Newline") /\ ~check(p, "Identifier")
    THEN EdgeLabelLoop(advance(p),
            (IF label # "" THEN label \o " " ELSE label) \o peek(p).text)
    ELSE [p |-> p, v |-> label]
parse_edge_label(p) ==
    LET r == EdgeLabelLoop(p, "")
    IN  [p |-> r.p, v |-> IF r.v = "" THEN NoneV ELSE TrimStr(r.v)]

RECURSIVE UntilPipeLoop(_, _)
UntilPipeLoop(p, content) ==
    IF ~is_at_end(p) /\ ~check(p, "Pipe")
    THEN UntilPipeLoop(advance(p), content \o peek(p).text)
    ELSE [p |-> p, v |-> content]
parse_until_pipe(p) ==
    LET r == UntilPipeLoop(p, "") IN [p |-> r.p, v |-> TrimStr(r.v)]

\* The LinkType of a token kind that parse_link consumes on its own.
LinkType(kind) ==
    CASE kind = "Arrow" -> "Arrow"
      [] kind = "Line" -> "Open"
      [] kind = "DottedLine" -> "Dotted"
      [] kind = "DottedArrow" -> "DottedArrow"
      [] kind = "ThickArrow" -> "ThickArrow"
      [] kind = "ThickLine" -> "Thick"
      [] kind = "Invisible" -> "Invisible"

\* The match of parse_link: `_ => return None` leaves the cursor in place.
parse_link(p) ==
    IF is_at_end(p) THEN [p |-> p, v |-> None]
    ELSE IF peek(p).kind \in {"Arrow", "Line", "DottedLine", "DottedArrow",
                             "ThickArrow", "ThickLine", "Invisible"}
    THEN LET q == advance(p)
         IN  IF check(q, "Pipe")
             THEN LET r == parse_until_pipe(advance(q))
                  IN  [p |-> IF check(r.p, "Pipe") THEN advance(r.p) ELSE r.p,
                       v |-> Some([link_type |-> LinkType(peek(p).kind),
                                   label |-> Some(r.v)])]
             ELSE [p |-> q,
                   v |-> Some([link_type |-> LinkType(peek(p).kind),
                               label |-> None])]
    ELSE IF peek(p).kind = "DoubleDash"
    THEN LET r == parse_edge_label(advance(p))
             lbl == IF r.v = NoneV THEN None ELSE Some(r.v)
         IN  IF check(r.p, "Arrow")
             THEN [p |-> advance(r.p),
                   v |-> Some([link_type |-> "Arrow", label |-> lbl])]
             ELSE [p |-> r.p,
                   v |-> Some([link_type |-> "Open", label |-> lbl])]
    ELSE [p |-> p, v |-> None]

\* Vec<String>::join.
RECURSIVE JoinStr(_, _)
JoinStr(ss, sep) ==
    IF ss = <<>> THEN ""
    ELSE IF Len(ss) = 1 THEN ss[1]
    ELSE ss[1] \o sep \o JoinStr(Tail(ss), sep)

\* while !is_at_end() && !check(Newline) { push(advance().text) }
RECURSIVE RestOfLine(_, _)
RestOfLine(p, acc) ==
    IF ~is_at_end(p) /\ ~check(p, "Newline")
    THEN RestOfLine(advance(p), Append(acc, peek(p).text))
    ELSE [p |-> p, v |-> acc]

RECURSIVE SubgraphIdLoop(_, _)
SubgraphIdLoop(p, id) ==
    IF check(p, "Text") \/ check(p, "Identifier")
    THEN SubgraphIdLoop(advance(p),
            (IF id # "" THEN id \o " " ELSE id) \o peek(p).text)
    ELSE [p |-> p, v |-> id]

parse_subgraph(p) ==
    LET start == current_span(p).start
        r == SubgraphIdLoop(advance(p), "")
        titled == check(r.p, "LBracket")
        l == parse_label_content(advance(r.p))
        q == IF titled THEN expect(l.p, "RBracket") ELSE r.p
        n0 == add_property(
                AstNode("Subgraph", Span(start, previous_span(q).end), NoneV),
                "id", TrimStr(r.v))
    IN  [p |-> q,
         v |-> Some(IF titled THEN add_property(n0, "label", l.v) ELSE n0)]

parse_end(p) ==
    LET q == advance(p)
    IN  [p |-> q,
         v |-> Some(AstNode("Statement",
                    Span(current_span(p).start, previous_span(q).end), NoneV))]

\* parse_style, parse_classdef and parse_click share their shape: the keyword,
\* an Identifier (else None with the keyword consumed), the rest of the line.
KeywordIdRest(p, kind, idkey, restkey, more) ==
    LET start == current_span(p).start
        q == advance(p)
    IN  IF check(q, "Identifier")
        THEN LET r == RestOfLine(advance(q), <<>>)
                 n0 == AstNode(kind, Span(start, previous_span(r.p).end), NoneV)
                 n1 == IF more = NoneV THEN n0 ELSE add_property(n0, "type", more)
             IN  [p |-> r.p,
                  v |-> Some(add_property(add_property(n1, idkey, peek(q).text),
                                          restkey, JoinStr(r.v, " ")))]
        ELSE [p |-> q, v |-> None]
parse_style(p) == KeywordIdRest(p, "Style", "node_id", "styles", NoneV)
parse_classdef(p) == KeywordIdRest(p, "ClassDef", "name", "styles", NoneV)
parse_click(p) == KeywordIdRest(p, "Statement", "node_id", "definition", "click")

\* while check(kinds) { push(advance().text); if check(Comma) { advance() } }
RECURSIVE IdListLoop(_, _, _)
IdListLoop(p, kinds, acc) ==
    IF ~is_at_end(p) /\ peek(p).kind \in kinds
    THEN LET q == advance(p)
         IN  IdListLoop(IF check(q, "Comma") THEN advance(q) ELSE q, kinds,
                        Append(acc, peek(p).text))
    ELSE [p |-> p, v |-> acc]

parse_class_assignment(p) ==
    LET start == current_span(p).start
        r == IdListLoop(advance(p), {"Identifier"}, <<>>)
        named == check(r.p, "Identifier")
        q == IF named THEN advance(r.p) ELSE r.p
        n0 == AstNode("Statement", Span(start, previous_span(q).end), NoneV)
    IN  [p |-> q,
         v |-> Some(add_property(add_property(add_property(n0,
                    "type", "class_assignment"),
                    "node_ids", JoinStr(r.v, ",")),
                    "class_name", IF named THEN peek(r.p).text ELSE ""))]

parse_direction(p) ==
    LET start == current_span(p).start
        q == advance(p)
        has == check(q, "DirectionValue")
        r == IF has THEN advance(q) ELSE q
        n0 == AstNode("Statement", Span(start, previous_span(r).end), NoneV)
    IN  [p |-> r,
         v |-> Some(add_property(add_property(n0, "type", "direction"),
                    "direction", IF has THEN peek(q).text ELSE ""))]

parse_linkstyle(p) ==
    LET start == current_span(p).start
        r == IdListLoop(advance(p), {"Number", "Identifier"}, <<>>)
        s == RestOfLine(r.p, <<>>)
        n0 == AstNode("Statement", Span(start, previous_span(s.p).end), NoneV)
    IN  [p |-> s.p,
         v |-> Some(add_property(add_property(add_property(n0,
                    "type", "linkStyle"),
                    "indices", JoinStr(r.v, ",")),
                    "styles", JoinStr(s.v, " ")))]

parse_declaration(p) ==
    IF ~check(p, "Graph") /\ ~check(p, "Flowchart") THEN [p |-> p, v |-> None]
    ELSE LET start == current_span(p).start
             q == advance(p)
             has == check(q, "DirectionValue")
             r == IF has THEN advance(q) ELSE q
             direction == IF ~has THEN "TopToBottom"
                          ELSE IF peek(q).text = "LR" THEN "LeftToRight"
                          ELSE "TopToBottom"
             node == AstNode("DiagramDeclaration",
                             Span(start, previous_span(r).end), peek(p).text)
         IN  [p |-> r, v |-> Some(add_property(node, "direction", direction))]

(***************************************************************************)
(* detector/mod.rs, parser/mod.rs and lib.rs                               *)
(***************************************************************************)
FlowKinds == {"Flowchart", "FlowchartV2", "FlowchartElk"}
\* The kinds parse_diagram hands to a parser of their own, besides FlowKinds.
ParserKinds ==
    {"Sequence", "Class", "ClassDiagram", "State", "StateDiagram", "Er",
     "Gantt", "Journey", "Pie", "GitGraph"}

as_str(dt) ==
    CASE dt = "Requirement" -> "requirement"
      [] dt = "XyChart" -> "xychart"
      [] dt = "QuadrantChart" -> "quadrantChart"
      [] dt = "C4" -> "c4"
      [] dt = "Packet" -> "packet"
      [] dt = "Treemap" -> "treemap"
      [] dt = "Sankey" -> "sankey"
      [] dt = "Kanban" -> "kanban"
      [] dt = "Block" -> "block"
      [] dt = "Radar" -> "radar"
      [] dt = "Info" -> "info"
      [] dt = "Timeline" -> "timeline"
      [] dt = "Mindmap" -> "mindmap"
      [] dt = "Architecture" -> "architecture"

\* Result<Ast, Vec<Diagnostic>> of a diagram parser.
Ok(ast) == [ok |-> TRUE, ast |-> Some(ast), diagnostics |-> <<>>]
Err(diags) == [ok |-> FALSE, ast |-> None, diagnostics |-> diags]
Ast(root_node, text) == [root |-> root_node, source |-> text]

\* The head of the parsers other than the flowchart parser.  Each lexer skips
\* blanks; the sequence, ER, gantt, pie, journey and gitGraph parsers skip
\* leading Newline tokens before they look for the declaration, the class and
\* state parsers do not.
ParserIntroducer(dt) ==
    CASE dt = "Sequence" -> "sequenceDiagram"
      [] dt \in {"Class", "ClassDiagram"} -> "classDiagram"
      [] dt \in {"State", "StateDiagram"} -> "stateDiagram"
      [] dt = "Er" -> "erDiagram"
      [] dt = "Gantt" -> "gantt"
      [] dt = "Journey" -> "journey"
      [] dt = "Pie" -> "pie"
      [] dt = "GitGraph" -> "gitGraph"
SkipsLeadingNewlines(dt) ==
    dt \notin {"Class", "ClassDiagram", "State", "StateDiagram"}
RECURSIVE FirstTokenAt(_, _, _)
FirstTokenAt(dt, text, i) ==
    IF i > Len(text) THEN i
    ELSE IF text[i] \in {" ", "\t"} \/ (text[i] = "\n" /\ SkipsLeadingNewlines(dt))
         THEN FirstTokenAt(dt, text, i + 1)
         ELSE i
\* The declaration check without its early return.
MissingIntroducer_never(dt, text) == FALSE
MissingIntroducer(dt, text) ==
    \/ FirstTokenAt(dt, text, 1) > Len(text)
    \/ Fold(text[FirstTokenAt(dt, text, 1)]) # ParserIntroducer(dt)
TokenSpanAt(text, i) ==
    IF i > Len(text) THEN Span(TextLen(text), TextLen(text))
    ELSE Span(TextLen(Take(text, i - 1)),
              TextLen(Take(text, i - 1)) + ByteLen(text[i]))
IntroducerDiagnostic(dt, text) ==
    IF dt \in {"Sequence", "Class", "ClassDiagram", "State", "StateDiagram"}
    THEN Diagnostic(ParserError, "Error", Span(0, 0))
    ELSE Diagnostic(ExpectedToken, "Error",
                    TokenSpanAt(text, FirstTokenAt(dt, text, 1)))
\* What such a parser can return: Err with the one diagnostic when the
\* declaration is missing; otherwise Ok, or Err with diagnostics of which one
\* at least is an error.
DiagramParserResults(dt, text) ==
    IF MissingIntroducer(dt, text)
    THEN {Err(<<IntroducerDiagnostic(dt, text)>>)}
    ELSE {Ok(Ast(AstNode("Root", Span(0, TextLen(text)), NoneV), text))}
         \cup {Err(<<Diagnostic(dcode, "Error", Span(at, at))>>) :
                 dcode \in {ParserError, ExpectedToken},
                 at \in {0, TextLen(text)}}
\* ParseResult::success / failure / failure_single / with_title.
success(dt, cfg, ast) ==
    [ok |-> TRUE, diagram_type |-> dt, config |-> cfg, ast |-> Some(ast),
     diagnostics |-> <<>>, title |-> NoneV]
\* failure with the `ok` flag of success.
failure_ok(diags) ==
    [ok |-> TRUE, diagram_type |-> NoneV, config |-> DefaultConfig,
     ast |-> None, diagnostics |-> diags, title |-> NoneV]
failure(diags) ==
    [ok |-> FALSE, diagram_type |-> NoneV, config |-> DefaultConfig,
     ast |-> None, diagnostics |-> diags, title |-> NoneV]
failure_single(d) == failure(<<d>>)
with_title(r, title) == [r EXCEPT !.title = title]

(***************************************************************************)
(* The inputs: sources of parse and of FlowchartParser::parse, and base    *)
(* configurations.                                                         *)
(***************************************************************************)
MaxStatements == 2
\* The statements of a class diagram source.
MaxClassStatements == 2

Introducers ==
    {<<"graph">>, <<"GRAPH">>, <<"flowchart">>, <<"flowchart", "-elk">>,
     <<"mindmap">>, <<"architecture">>, <<"C4Context">>, <<"kanban">>,
     <<"classDiagram", "-v2">>, <<"classDiagram">>, <<"erDiagram">>,
     <<"gantt">>, <<"info">>, <<"pie">>, <<"requirement">>,
     <<"sequenceDiagram">>, <<"timeline">>, <<"gitGraph">>,
     <<"stateDiagram", "-v2">>, <<"stateDiagram">>, <<"journey">>,
     <<"quadrantChart">>, <<"sankey">>, <<"packet">>, <<"xychart">>,
     <<"block">>, <<"radar">>, <<"treemap">>,
     <<"error">>, <<"ERROR">>, <<"Error">>, <<"x">>, <<>>}
Leads == {<<>>, <<" ", "\n">>}
Tails == {<<>>, <<"\n">>, <<" ", "TD", "\n", "A", " ", "-->", " ", "B">>}
DetectSources ==
    {l \o i \o t : l \in Leads, i \in Introducers, t \in Tails}

FrontmatterBlock(ys) ==
    <<"---", "\n">> \o Flatten([i \in 1..Len(ys) |-> <<ys[i], "\n">>])
        \o <<"---", "\n">>
Frontmatters ==
    {<<>>}
    \cup {FrontmatterBlock(<<y>>) :
            y \in {"title: T", "displayMode: compact", "x", "config: 5",
                   "config: {flowchart: {defaultRenderer: elk}}",
                   "config: {flowchart: {defaultRenderer: dagre-wrapper}}",
                   "config: {layout: elk, wrap: true}",
                   "config: {gantt: {displayMode: wide}}"}}
    \cup {FrontmatterBlock(<<"title: T",
                             "config: {flowchart: {defaultRenderer: elk}}">>),
          FrontmatterBlock(<<"displayMode: compact",
                             "config: {gantt: {displayMode: wide}}">>),
          FrontmatterBlock(<<"title: T", "title: T">>),
          FrontmatterBlock(<<>>),
          <<"---", "\n", "title: T", "\n">>,
          <<"---", " ", "\n", "title: T", "\n", "---", " ", "\r", "\n", "\n">>,
          <<"----", "\n", "title: T", "\n", "---", "\n">>}

DirectiveAtoms ==
    {"init: {\"flowchart\":{\"defaultRenderer\":\"elk\"}}",
     "init: {\"flowchart\":{\"defaultRenderer\":\"dagre-wrapper\"}}",
     "initialize: {\"layout\":\"elk\"}", "init: {\"wrap\":false}",
     "init: {bad", "wrap"}
DirectiveBlock(d) == <<"%%{", d, "}%%", "\n">>
Directives ==
    {<<>>}
    \cup {DirectiveBlock(d) : d \in DirectiveAtoms}
    \cup {DirectiveBlock("init: {\"flowchart\":{\"defaultRenderer\":\"elk\"}}")
            \o DirectiveBlock(
                "init: {\"flowchart\":{\"defaultRenderer\":\"dagre-wrapper\"}}"),
          <<"%%{", "wrap", "\n">>,
          <<"%%", "%%{", "x", "}%%", "{", "wrap", "}%%", "\n">>}

Heads ==
    {<<"graph", " ", "TD", "\n", "A">>,
     <<"%% note", "\n", "flowchart", " ", "LR", "\n", " ", "%% note", "\n", "A">>,
     <<"graph", "\n", "%%{", "initialize: {\"layout\":\"elk\"}", "}%%", "\n", "A">>,
     <<"classDiagram", "\n">>, <<"stateDiagram", "\n">>, <<"gantt", "\n">>,
     <<"x">>, <<"error">>, <<>>}
ConfigSources ==
    {f \o d \o h : f \in Frontmatters, d \in Directives, h \in Heads}

Renderer(r) == [DefaultConfig EXCEPT !.flowchart_renderer = r]
BaseConfigs ==
    {None, Some(Renderer("elk")), Some(Renderer("dagre-wrapper")),
     Some(Renderer("dagre-d3")),
     Some([DefaultConfig EXCEPT !.class_renderer = "dagre-wrapper",
                                !.state_renderer = "dagre-wrapper",
                                !.gantt_display_mode = "compact"]),
     Some([DefaultConfig EXCEPT !.layout = "elk", !.wrap = TRUE])}

\* Flowchart statements and bodies of up to MaxStatements of them.  The atoms
\* of a statement are its lexemes by longest match: `(((x)))` is `((`, `(`,
\* `x`, `))`, `)`.
Statements ==
    {<<"A">>, <<"A", " ", "-->", " ", "B">>, <<"A", "[", "t", "]">>,
     <<"A", "(", ")">>, <<"A", "[", "t">>,
     <<"-->", " ", "B">>, <<"A", " ", "-->">>,
     <<"A", " ", "==", " ", "B">>, <<"A", " ", "-.", " ", "B">>,
     <<"A", " ", "-->", "|", "t", "|", " ", "B">>,
     <<"A", " ", "--", " ", "t", " ", "-->", " ", "B">>,
     <<"A", "[", "#quot", ";", "]">>,
     <<"style", " ", "A", " ", "fill", ":", "#f9f", ";">>,
     <<"style">>, <<"subgraph", " ", "x">>,
     <<"A", "[", "]">>, <<"A", " ", "-->", " ", "B", "{", "}">>,
     <<"A", "((", "(", "x", "))", ")">>,
     <<"A", "((", "(", "x", ")", " ", "))">>,
     <<"A", "[", "]", " ", "B">>}
Separators == {<<"\n">>, <<";", " ">>}
RECURSIVE Bodies(_)
Bodies(n) ==
    IF n = 0 THEN {<<>>}
    ELSE LET shorter == Bodies(n - 1)
         IN  shorter \cup {b \o sep \o s :
                             b \in shorter, sep \in Separators, s \in Statements}
Declarations ==
    {<<"graph", " ", "TD">>, <<"flowchart", " ", "LR">>, <<"flowchart", "-elk">>}
FlowSources == {d \o b : d \in Declarations, b \in Bodies(MaxStatements)}
\* Sources a caller can hand to FlowchartParser::parse itself.
ParserSources == FlowSources \cup (Bodies(MaxStatements) \ {<<>>}) \cup {<<>>}

\* DiagramType::all().
all ==
    {"Error", "BadFrontmatter", "Flowchart", "FlowchartV2", "FlowchartElk",
     "Sequence", "Class", "ClassDiagram", "State", "StateDiagram", "Er",
     "Gantt", "Journey", "Requirement", "GitGraph", "XyChart",
     "QuadrantChart", "C4", "Packet", "Treemap", "Sankey", "Kanban", "Block",
     "Radar", "Pie", "Info", "Timeline", "Mindmap", "Architecture"}

\* The keyword that introduces each kind under the default configuration.
introducer(k) ==
    CASE k = "Error" -> <<"error">>
      [] k = "BadFrontmatter" -> <<"---">>
      [] k = "Flowchart" -> <<"graph">>
      [] k = "FlowchartV2" -> <<"flowchart">>
      [] k = "FlowchartElk" -> <<"flowchart", "-elk">>
      [] k = "Sequence" -> <<"sequenceDiagram">>
      [] k = "Class" -> <<"classDiagram">>
      [] k = "ClassDiagram" -> <<"classDiagram", "-v2">>
      [] k = "State" -> <<"stateDiagram">>
      [] k = "StateDiagram" -> <<"stateDiagram", "-v2">>
      [] k = "Er" -> <<"erDiagram">>
      [] k = "Gantt" -> <<"gantt">>
      [] k = "Journey" -> <<"journey">>
      [] k = "Requirement" -> <<"requirement">>
      [] k = "GitGraph" -> <<"gitGraph">>
      [] k = "XyChart" -> <<"xychart">>
      [] k = "QuadrantChart" -> <<"quadrantChart">>
      [] k = "C4" -> <<"C4Context">>
      [] k = "Packet" -> <<"packet">>
      [] k = "Treemap" -> <<"treemap">>
      [] k = "Sankey" -> <<"sankey">>
      [] k = "Kanban" -> <<"kanban">>
      [] k = "Block" -> <<"block">>
      [] k = "Radar" -> <<"radar">>
      [] k = "Pie" -> <<"pie">>
      [] k = "Info" -> <<"info">>
      [] k = "Timeline" -> <<"timeline">>
      [] k = "Mindmap" -> <<"mindmap">>
      [] k = "Architecture" -> <<"architecture">>

\* What follows the introducer line: nothing, blanks, statements, the closing
\* line of a frontmatter block, a directive that selects the elk renderer, a
\* comment.
RoundTripBodies ==
    {<<>>, <<" ", "\n">>, <<"A">>, <<" ", "A", " ", "-->", " ", "B", "\n">>,
     <<"title: T", "\n", "---", "\n", "graph", " ", "TD">>,
     <<"%%{", "init: {\"flowchart\":{\"defaultRenderer\":\"elk\"}}", "}%%",
       "\n", "A">>,
     <<"%% note", "\n", "A">>, <<"-v2">>}
RoundTripSources ==
    {introducer(k) \o <<"\n">> \o b : k \in all, b \in RoundTripBodies}

Sources == DetectSources \cup ConfigSources \cup FlowSources

(***************************************************************************)
(* The state machine.  `api` is the public entry point that was called:    *)
(* parse (lib.rs), FlowchartParser::parse (diagrams/flowchart/parser.rs)   *)
(* or parse_diagram (parser/mod.rs).                                       *)
(***************************************************************************)
Fresh ==
    /\ pre = None
    /\ config = DefaultConfig
    /\ diagram_type = NoneV
    /\ tokens = <<>>
    /\ pos = 0
    /\ diagnostics = <<>>
    /\ root = None
    /\ stmt = None
    /\ iter_start = -1
    /\ skipped = 0
    /\ parse_result = None
    /\ result = None

InitParse ==
    /\ api = "parse"
    /\ \/ source \in DetectSources \cup ConfigSources /\ base_config \in BaseConfigs
       \/ source \in FlowSources /\ base_config = None
    /\ pc = "start"
    /\ code = <<>>
    /\ Fresh

InitFlowchartParser ==
    /\ api = "FlowchartParser"
    /\ source \in ParserSources
    /\ base_config = None
    /\ pc = "flowchart"
    /\ code = source
    /\ Fresh

\* parse_diagram called on its own with the kind of one of the other parsers.
HeadSources ==
    {l \o i \o t :
        l \in {<<>>, <<"\n">>, <<" ", "\n", " ">>},
        i \in {<<"sequenceDiagram">>, <<"classDiagram">>,
               <<"classDiagram", "-v2">>, <<"stateDiagram">>,
               <<"stateDiagram", "-v2">>, <<"erDiagram">>, <<"gantt">>,
               <<"journey">>, <<"pie">>, <<"gitGraph">>, <<"graph">>,
               <<"x">>, <<>>},
        t \in {<<>>, <<"\n", "x">>}}
InitParseDiagram ==
    /\ api = "parse_diagram"
    /\ source \in HeadSources
    /\ base_config = None
    /\ pc = "encoded"
    /\ code = source
    /\ pre = None
    /\ config = DefaultConfig
    /\ diagram_type \in ParserKinds
    /\ tokens = <<>>
    /\ pos = 0
    /\ diagnostics = <<>>
    /\ root = None
    /\ stmt = None
    /\ iter_start = -1
    /\ skipped = 0
    /\ parse_result = None
    /\ result = None

\* lib.rs detect_type is called with a source.
InitDetectType ==
    /\ api = "detect_type"
    /\ source \in RoundTripSources \cup DetectSources
    /\ base_config = None
    /\ pc = "start"
    /\ code = <<>>
    /\ Fresh

(***************************************************************************)
(* diagrams/class/lexer.rs and diagrams/class/parser.rs.  The cursor       *)
(* helpers of ClassParserImpl (is_at_end, peek, check, advance,            *)
(* current_span, previous_span, skip_to_newline) are those of the          *)
(* flowchart parser, word for word.                                        *)
(***************************************************************************)
\* ClassToken of the atoms of the class sources; the names are Identifiers.
ClassToken(a) ==
    CASE a = "classDiagram" -> "ClassDiagram"
      [] a = "class" -> "Class"
      [] a = "namespace" -> "Namespace"
      [] a = "<|--" -> "InheritanceLeft"
      [] a = "{" -> "LBrace"
      [] a = "}" -> "RBrace"
      [] a = "\n" -> "Newline"
      [] OTHER -> "Identifier"

\* class/lexer.rs tokenize: blanks are skipped.
class_tokenize(text) ==
    SelectSeq([i \in 1..Len(text) |->
                  [kind |-> ClassToken(text[i]),
                   span |-> Span(TextLen(Take(text, i - 1)),
                                 TextLen(Take(text, i))),
                   text |-> text[i]]],
              LAMBDA t : t.text \notin {" ", "\t"})

RECURSIVE class_skip_newlines(_)
class_skip_newlines(p) ==
    IF check(p, "Newline") THEN class_skip_newlines(advance(p)) ELSE p

expect_identifier(p) ==
    IF check(p, "Identifier")
    THEN [p |-> advance(p), v |-> Some(peek(p).text)]
    ELSE [p |-> push(p, Diagnostic(ExpectedToken, "Error", current_span(p))),
          v |-> None]

\* parse_class_member for members made of names: `name` or `type name`.
parse_class_member(p) ==
    LET start == current_span(p).start
        typed == check(advance(p), "Identifier")
        q == IF typed THEN advance(advance(p)) ELSE advance(p)
        name == IF typed THEN peek(advance(p)).text ELSE peek(p).text
        n0 == add_property(
                 AstNode("Attribute", Span(start, previous_span(q).end), name),
                 "name", name)
    IN  IF ~check(p, "Identifier") THEN [p |-> p, v |-> None]
        ELSE [p |-> q,
              v |-> Some(IF typed THEN add_property(n0, "type", peek(p).text)
                         ELSE n0)]

\* The body loop of parse_class.
RECURSIVE ClassBody(_, _)
ClassBody(p, node) ==
    LET q == class_skip_newlines(p)
        m == parse_class_member(q)
    IN  IF is_at_end(p) \/ check(p, "RBrace") \/ check(q, "RBrace")
        THEN [p |-> IF is_at_end(p) \/ check(p, "RBrace") THEN p ELSE q,
              v |-> node]
        ELSE IF IsSome(m.v) THEN ClassBody(m.p, add_child(node, Unwrap(m.v)))
        ELSE ClassBody(skip_to_newline(m.p), node)

parse_class(p) ==
    LET start == current_span(p).start
        name == expect_identifier(advance(p))
        n0 == add_property(
                 AstNode("Class", Span(start, previous_span(name.p).end),
                         Unwrap(name.v)),
                 "name", Unwrap(name.v))
        body == IF check(name.p, "LBrace")
                THEN ClassBody(class_skip_newlines(advance(name.p)), n0)
                ELSE [p |-> name.p, v |-> n0]
        q == IF check(name.p, "LBrace") /\ check(body.p, "RBrace")
             THEN advance(body.p) ELSE body.p
    IN  IF ~IsSome(name.v) THEN [p |-> name.p, v |-> None]
        ELSE [p |-> q,
              v |-> Some([body.v EXCEPT
                            !.span = Span(start, previous_span(q).end)])]

\* parse_relationship_or_member for `A <|-- B`.
parse_relationship_or_member(p) ==
    LET start == current_span(p).start
        first_id == expect_identifier(p)
        second_id == expect_identifier(advance(first_id.p))
        node == add_property(add_property(add_property(
                    AstNode("Relationship",
                            Span(start, previous_span(second_id.p).end), NoneV),
                    "from", Unwrap(first_id.v)),
                    "to", Unwrap(second_id.v)),
                    "relation_type", "Inheritance")
    IN  IF ~IsSome(first_id.v) THEN [p |-> first_id.p, v |-> None]
        ELSE IF ~check(first_id.p, "InheritanceLeft")
        THEN [p |-> first_id.p, v |-> None]
        ELSE IF ~IsSome(second_id.v) THEN [p |-> second_id.p, v |-> None]
        ELSE [p |-> second_id.p, v |-> Some(node)]

\* class/parser.rs parse_statement, parse_namespace and its body loop.
RECURSIVE class_parse_statement(_)
RECURSIVE parse_namespace(_)
RECURSIVE NamespaceBody(_, _)
class_parse_statement(p0) ==
    LET p == class_skip_newlines(p0)
    IN  IF is_at_end(p) THEN [p |-> p, v |-> None]
        ELSE IF check(p, "Class") THEN parse_class(p)
        ELSE IF check(p, "Namespace") THEN parse_namespace(p)
        ELSE parse_relationship_or_member(p)

NamespaceBody(p, node) ==
    LET s == class_parse_statement(class_skip_newlines(p))
    IN  IF is_at_end(p) \/ check(p, "RBrace") THEN [p |-> p, v |-> node]
        ELSE IF IsSome(s.v)
        THEN NamespaceBody(s.p, add_child(node, Unwrap(s.v)))
        ELSE NamespaceBody(skip_to_newline(s.p), node)

parse_namespace(p) ==
    LET start == current_span(p).start
        name == expect_identifier(advance(p))
        n0 == add_property(add_property(
                 AstNode("Subgraph", Span(start, previous_span(name.p).end),
                         NoneV),
                 "type", "namespace"), "name", Unwrap(name.v))
        body == IF check(name.p, "LBrace")
                THEN NamespaceBody(class_skip_newlines(advance(name.p)), n0)
                ELSE [p |-> name.p, v |-> n0]
        q == IF check(name.p, "LBrace") /\ check(body.p, "RBrace")
             THEN advance(body.p) ELSE body.p
    IN  IF ~IsSome(name.v) THEN [p |-> name.p, v |-> None]
        ELSE [p |-> q,
              v |-> Some([body.v EXCEPT
                            !.span = Span(start, previous_span(q).end)])]

\* The statement loop of ClassParserImpl::parse.
RECURSIVE ClassStatements(_, _)
ClassStatements(p, root_node) ==
    LET q == class_skip_newlines(p)
        Continue(s) ==
            IF IsSome(s.v)
            THEN ClassStatements(s.p, add_child(root_node, Unwrap(s.v)))
            ELSE ClassStatements(skip_to_newline(s.p), root_node)
    IN  IF is_at_end(p) \/ is_at_end(q) THEN [p |-> q, v |-> root_node]
        ELSE Continue(class_parse_statement(q))

\* ClassParserImpl::parse: the declaration at the first token, the statements,
\* Err if an error was recorded.
class_parse(text) ==
    LET p0 == [tokens |-> class_tokenize(text), pos |-> 0,
               len |-> TextLen(text), diagnostics |-> <<>>]
        root0 == AstNode("Root", Span(0, TextLen(text)), NoneV)
        decl == AstNode("DiagramDeclaration", current_span(p0), peek(p0).text)
        Returns(run) ==
            [p |-> run.p, root |-> run.v,
             result |-> IF \E i \in 1..Len(run.p.diagnostics) :
                               is_error(run.p.diagnostics[i])
                        THEN Err(run.p.diagnostics)
                        ELSE Ok(Ast(run.v, text))]
    IN  IF ~check(p0, "ClassDiagram")
        THEN [p |-> p0, root |-> root0,
              result |-> Err(<<Diagnostic(ParserError, "Error", Span(0, 0))>>)]
        ELSE Returns(ClassStatements(class_skip_newlines(advance(p0)),
                                     add_child(root0, decl)))

\* Class diagram statements: a class, a class with a body (closed, and still
\* open at the end of the statement), a relationship, a namespace block with
\* its statements and `}` on their own lines, and one that is never closed.
ClassStatementTexts ==
    {<<"class", " ", "A">>, <<"class">>,
     <<"class", " ", "A", " ", "{", "\n", " ", "x", "\n", "}">>,
     <<"class", " ", "A", " ", "{", "\n", " ", "B", " ", "x">>,
     <<"class", " ", "A", " ", "{">>,
     <<"A", " ", "<|--", " ", "B">>,
     <<"<|--", " ", "B">>,
     <<"namespace", " ", "N", " ", "{", "\n", " ", "class", " ", "A", "\n", "}">>,
     <<"namespace", " ", "N", " ", "{", "\n", "A", " ", "<|--", " ", "B", "\n",
       "class", " ", "A", "\n", "}">>,
     <<"namespace", " ", "N", " ", "{", "\n", "}">>,
     <<"namespace", " ", "N", " ", "{", "\n", " ", "class", " ", "A">>,
     <<"namespace", " ", "N", " ", "{", "\n", " ", "class", " ", "A", " ", "{",
       "\n", "x", "\n", "}", "\n", "}">>}
RECURSIVE ClassBodies(_)
ClassBodies(n) ==
    IF n = 0 THEN {<<>>}
    ELSE LET shorter == ClassBodies(n - 1)
         IN  shorter \cup {b \o <<"\n">> \o s :
                             b \in shorter, s \in ClassStatementTexts}
ClassSources ==
    {d \o b \o t : d \in {<<"classDiagram">>, <<"\n", "classDiagram">>, <<>>},
                   b \in ClassBodies(MaxClassStatements),
                   t \in {<<>>, <<"\n">>}}

\* ClassParser::parse is called with a code.
InitClassParser ==
    /\ api = "ClassParser"
    /\ source \in ClassSources
    /\ base_config = None
    /\ pc = "class"
    /\ code = source
    /\ Fresh

(***************************************************************************)
(* diagnostic/mod.rs: the source context of a formatted diagnostic         *)
(***************************************************************************)
\* The chars of an atom, where ByteLen counts its bytes.
CharLen(a) ==
    CASE a = "{fl-deg}quot{para-ss}" -> 8
      [] a = "{fl-deg}f9f{para-ss}" -> 7
      [] a = "{fl-deg-deg}35{para-ss}" -> 7
      [] OTHER -> Len(a)

\* The loop of offset_to_line_col over char_indices: idx is the byte index of
\* the next char.  An offset inside an atom counts the chars before it.
RECURSIVE LineCol(_, _, _, _, _)
LineCol(t, idx, offset, line, col) ==
    IF t = <<>> \/ idx >= offset THEN [line |-> line, col |-> col]
    ELSE IF Head(t) = "\n"
    THEN LineCol(Tail(t), idx + 1, offset, line + 1, 1)
    ELSE IF idx + ByteLen(Head(t)) <= offset
    THEN LineCol(Tail(t), idx + ByteLen(Head(t)), offset, line,
                 col + CharLen(Head(t)))
    ELSE [line |-> line, col |-> col + (offset - idx)]

offset_to_line_col(source_text, offset) ==
    LineCol(source_text, 0, Min({offset, TextLen(source_text)}), 1, 1)

\* A line of str::lines() loses the `\r` of a `\r\n` ending.
StripCr(line) ==
    IF line # <<>> /\ line[Len(line)] = "\r"
    THEN Take(line, Len(line) - 1) ELSE line

\* usize values are kept as integers; a negative v stands for 2^64 + v, the
\* value a wrapping subtraction leaves, so that sums stay exact and the order
\* of two values is the unsigned one.
UsizeLess(a, b) == IF (a < 0) = (b < 0) THEN a < b ELSE b < 0
UsizeMin(a, b) == IF UsizeLess(b, a) THEN b ELSE a
UsizeMax(a, b) == IF UsizeLess(a, b) THEN b ELSE a

\* get_source_context of a diagnostic with a non-empty span: the outcomes the
\* builds of the crate can produce.  `line.len() - col` is a usize
\* subtraction: below zero it panics where overflow checks are compiled in
\* (the dev profile) and wraps where they are not (the release profile).
get_source_context(span, source_text) ==
    LET lc == offset_to_line_col(source_text, span.start)
        lines == Lines(source_text)
        line == StripCr(lines[lc.line])
        room == TextLen(line) - lc.col
        caret_len == UsizeMax(UsizeMin(span.end - span.start, room + 1), 1)
        context == [panics |-> FALSE,
                    context |-> Some([line |-> line,
                                      caret_padding |-> lc.col - 1,
                                      carets |-> caret_len])]
    IN  IF lc.line = 0 \/ lc.line > Len(lines)
        THEN {[panics |-> FALSE, context |-> None]}
        ELSE IF room < 0
        THEN {[panics |-> TRUE, context |-> None], context}
        ELSE {context}
Init ==
    \/ InitParse
    \/ InitFlowchartParser
    \/ InitParseDiagram
    \/ InitDetectType
    \/ InitClassParser

\* The parser state held in the variables.
P == [tokens |-> tokens, pos |-> pos, len |-> TextLen(code),
      diagnostics |-> diagnostics]

\* lib.rs parse, step 1 and the merge of the base configuration.
Preprocessed(preprocess_result) ==
    /\ pre' = Some(preprocess_result)
    /\ config' = merge(IF IsSome(base_config) THEN Unwrap(base_config)
                       ELSE DefaultConfig,
                       preprocess_result.config)
Preprocess ==
    /\ api = "parse"
    /\ pc = "start"
    /\ Preprocessed(preprocess(source))
    /\ pc' = "preprocessed"
    /\ UNCHANGED <<api, source, base_config, diagram_type, code, tokens, pos,
                   diagnostics, root, stmt, iter_start, skipped, parse_result,
                   result>>

\* lib.rs detect_type: the source is preprocessed and the preprocessed code is
\* classified under MermaidConfig::default(); the configuration the source
\* sets is not used.  The Option it returns is kept in diagram_type.
lib_detect_type(text) == detect_type(preprocess(text).code, DefaultConfig)
LibDetectType ==
    /\ api = "detect_type"
    /\ pc = "start"
    /\ pre' = Some(preprocess(source))
    /\ diagram_type' = lib_detect_type(source)
    /\ pc' = "done"
    /\ UNCHANGED <<api, source, base_config, config, code, tokens, pos,
                   diagnostics, root, stmt, iter_start, skipped, parse_result,
                   result>>

\* lib.rs parse, step 2.
DetectType ==
    /\ pc = "preprocessed"
    /\ LET dt == detect_type(Unwrap(pre).code, config)
       IN  /\ diagram_type' = dt
           /\ IF dt = NoneV
              THEN /\ result' = Some(with_title(
                        failure_single(Diagnostic(UnknownDiagram, "Error",
                                                  Span(0, 0))),
                        Unwrap(pre).title))
                   /\ pc' = "done"
              ELSE /\ result' = result
                   /\ pc' = "detected"
    /\ UNCHANGED <<api, source, base_config, pre, config, code, tokens, pos,
                   diagnostics, root, stmt, iter_start, skipped, parse_result>>

\* lib.rs parse, the match on the special diagram types.
SpecialType ==
    /\ pc = "detected"
    /\ diagram_type \in {"Error", "BadFrontmatter"}
    /\ result' = Some(with_title(
            failure_single(Diagnostic(
                IF diagram_type = "Error" THEN ParserError
                ELSE FrontmatterParseError, "Error", Span(0, 0))),
            Unwrap(pre).title))
    /\ pc' = "done"
    /\ UNCHANGED <<api, source, base_config, pre, config, diagram_type, code,
                   tokens, pos, diagnostics, root, stmt, iter_start, skipped,
                   parse_result>>

\* EncodeEntities without the return of the special types before it.
EncodeEntities_any_kind ==
    /\ pc = "detected"
    /\ code' = IF needs_entity_encoding(diagram_type)
               THEN encode_entities(Unwrap(pre).code)
               ELSE Unwrap(pre).code
    /\ pc' = "encoded"
    /\ UNCHANGED <<api, source, base_config, pre, config, diagram_type, tokens,
                   pos, diagnostics, root, stmt, iter_start, skipped,
                   parse_result, result>>
\* lib.rs parse, step 3.
EncodeEntities ==
    /\ pc = "detected"
    /\ diagram_type \notin {"Error", "BadFrontmatter"}
    /\ code' = IF needs_entity_encoding(diagram_type)
               THEN encode_entities(Unwrap(pre).code)
               ELSE Unwrap(pre).code
    /\ pc' = "encoded"
    /\ UNCHANGED <<api, source, base_config, pre, config, diagram_type, tokens,
                   pos, diagnostics, root, stmt, iter_start, skipped,
                   parse_result, result>>

\* parser/mod.rs parse_diagram.  The flowchart parser is modelled below, the
\* other parsers by DiagramParserResults; the remaining kinds get the stub
\* Ast.
ParseDiagram ==
    /\ pc = "encoded"
    /\ IF diagram_type \in FlowKinds
       THEN /\ pc' = "flowchart"
            /\ UNCHANGED parse_result
       ELSE /\ pc' = "returned"
            /\ IF diagram_type \in ParserKinds
               THEN \E r \in DiagramParserResults(diagram_type, code) :
                       parse_result' = Some(r)
               ELSE parse_result' = Some(Ok(Ast(
                        add_property(add_property(
                            AstNode("Root", Span(0, TextLen(code)), NoneV),
                            "diagram_type", as_str(diagram_type)),
                            "status", "stub"),
                        code)))
    /\ UNCHANGED <<api, source, base_config, pre, config, diagram_type, code,
                   tokens, pos, diagnostics, root, stmt, iter_start, skipped,
                   result>>

\* FlowchartParser::parse and the head of FlowchartParserImpl::parse: the
\* tokens, the root node, the declaration.
FlowchartParse ==
    /\ pc = "flowchart"
    /\ LET toks == tokenize(code)
           p0 == [tokens |-> toks, pos |-> 0, len |-> TextLen(code),
                  diagnostics |-> <<>>]
           decl == parse_declaration(skip_newlines(p0))
           root0 == AstNode("Root", Span(0, TextLen(code)), NoneV)
       IN  /\ tokens' = toks
           /\ IF IsSome(decl.v)
              THEN /\ root' = Some(add_child(root0, Unwrap(decl.v)))
                   /\ pos' = skip_newlines(decl.p).pos
                   /\ diagnostics' = <<>>
                   /\ parse_result' = parse_result
                   /\ pc' = "statements"
              ELSE /\ root' = Some(root0)
                   /\ pos' = decl.p.pos
                   /\ diagnostics' =
                        <<Diagnostic(ParserError, "Error", Span(0, 0))>>
                   /\ parse_result' = Some(Err(diagnostics'))
                   /\ pc' = "returned"
    /\ UNCHANGED <<api, source, base_config, pre, config, diagram_type, code,
                   stmt, iter_start, skipped, result>>

\* The keyword statements of parse_statement.
StatementKeywords ==
    {"Subgraph", "End", "Style", "ClassDef", "Class", "Direction", "Click",
     "LinkStyle"}
KeywordStatement(p) ==
    CASE check(p, "Subgraph") -> parse_subgraph(p)
      [] check(p, "End") -> parse_end(p)
      [] check(p, "Style") -> parse_style(p)
      [] check(p, "ClassDef") -> parse_classdef(p)
      [] check(p, "Class") -> parse_class_assignment(p)
      [] check(p, "Direction") -> parse_direction(p)
      [] check(p, "Click") -> parse_click(p)
      [] check(p, "LinkStyle") -> parse_linkstyle(p)

\* The tokens between two cursors that are no Newline.
Dropped(from, to) ==
    Cardinality({i \in (from + 1)..to : tokens[i].kind # "Newline"})

\* parse_statement up to the first node of parse_node_or_link.
parse_statement(p) ==
    IF peek(p).kind \in StatementKeywords
    THEN KeywordStatement(p) ELSE parse_node(p)

\* What the statement loop does with the outcome r of parse_statement at p.
StatementOutcome(p, r) ==
    IF ~IsSome(r.v)
    THEN /\ pos' = skip_to_newline(r.p).pos
         /\ skipped' = skipped + Dropped(p.pos, skip_to_newline(r.p).pos)
         /\ diagnostics' = r.p.diagnostics
         /\ UNCHANGED <<pc, root, stmt>>
    ELSE IF peek(p).kind \notin StatementKeywords /\ is_link_start(r.p)
    THEN /\ pos' = r.p.pos
         /\ diagnostics' = r.p.diagnostics
         /\ stmt' = Some(add_child(
                 AstNode("Edge", Span(current_span(p).start,
                                      current_span(p).start), NoneV),
                 Unwrap(r.v)))
         /\ pc' = "links"
         /\ UNCHANGED <<root, skipped>>
    ELSE /\ pos' = r.p.pos
         /\ diagnostics' = r.p.diagnostics
         /\ root' = Some(add_child(Unwrap(root), Unwrap(r.v)))
         /\ UNCHANGED <<pc, stmt, skipped>>

\* The same loops as functions of the cursor, for parses of another text than
\* the one in the variables.  parse_links is the link loop of
\* parse_node_or_link on the statement st (v = None: the loop makes no
\* progress and never ends); run_statements is the statement loop of
\* FlowchartParserImpl::parse; FlowchartStatements is the whole parse of a
\* text, without the declaration node.
RECURSIVE parse_links(_, _)
parse_links(p, st) ==
    IF ~is_link_start(p)
    THEN [p |-> p,
          v |-> Some([st EXCEPT
                        !.span = Span(st.span.start, previous_span(p).end)])]
    ELSE LET l == parse_link(p)
             n == parse_node(l.p)
             e0 == add_property(
                      AstNode("Edge",
                              Span(st.span.start, previous_span(n.p).end),
                              NoneV),
                      "link_type", Unwrap(l.v).link_type)
             e1 == IF IsSome(Unwrap(l.v).label)
                   THEN add_property(e0, "label", Unwrap(Unwrap(l.v).label))
                   ELSE e0
         IN  IF ~IsSome(l.v) THEN [p |-> p, v |-> None]
             ELSE IF ~IsSome(n.v) THEN parse_links(n.p, st)
             ELSE parse_links(n.p, add_child(st, add_child(e1, Unwrap(n.v))))

RECURSIVE run_statements(_, _)
run_statements(p0, children) ==
    LET p == skip_newlines(p0)
        r == parse_statement(p)
        ls == parse_links(r.p, add_child(
                 AstNode("Edge", Span(current_span(p).start,
                                      current_span(p).start), NoneV),
                 Unwrap(r.v)))
    IN  IF is_at_end(p)
        THEN [returns |-> TRUE, children |-> children,
              diagnostics |-> p.diagnostics]
        ELSE IF ~IsSome(r.v)
        THEN run_statements(skip_to_newline(r.p), children)
        ELSE IF peek(p).kind \notin StatementKeywords /\ is_link_start(r.p)
        THEN IF IsSome(ls.v)
             THEN run_statements(ls.p, Append(children, Unwrap(ls.v)))
             ELSE [returns |-> FALSE, children |-> children,
                   diagnostics |-> ls.p.diagnostics]
        ELSE run_statements(r.p, Append(children, Unwrap(r.v)))

FlowchartStatements(text) ==
    LET p0 == [tokens |-> tokenize(text), pos |-> 0, len |-> TextLen(text),
               diagnostics |-> <<>>]
        decl == parse_declaration(skip_newlines(p0))
    IN  IF IsSome(decl.v)
        THEN run_statements(skip_newlines(decl.p), <<>>)
        ELSE [returns |-> TRUE, children |-> <<>>,
              diagnostics |-> <<Diagnostic(ParserError, "Error", Span(0, 0))>>]
\* One iteration of the statement loop of FlowchartParserImpl::parse, with
\* parse_statement and the head of parse_node_or_link: up to the first node
\* of a link chain, whose loop the next two actions model.
StatementLoop(p) ==
    IF is_at_end(p)
    THEN /\ pos' = p.pos
         /\ UNCHANGED <<pc, diagnostics, root, stmt, skipped>>
    ELSE StatementOutcome(skip_newlines(p), parse_statement(skip_newlines(p)))
StatementIteration ==
    /\ pc = "statements"
    /\ ~is_at_end(P)
    /\ iter_start' = pos
    /\ StatementLoop(skip_newlines(P))
    /\ UNCHANGED <<api, source, base_config, pre, config, diagram_type, code,
                   tokens, parse_result, result>>

\* What the link loop does with the link l and the target node n.
LinkOutcome(l, n) ==
    LET start == Unwrap(stmt).span.start
        e0 == add_property(
                 AstNode("Edge", Span(start, previous_span(n.p).end), NoneV),
                 "link_type", Unwrap(l.v).link_type)
        e1 == IF IsSome(Unwrap(l.v).label)
              THEN add_property(e0, "label", Unwrap(Unwrap(l.v).label))
              ELSE e0
    IN  IF ~IsSome(l.v)
        THEN UNCHANGED <<pos, diagnostics, stmt, skipped>>
        ELSE IF ~IsSome(n.v)
        THEN /\ pos' = n.p.pos
             /\ diagnostics' = n.p.diagnostics
             /\ skipped' = skipped + Dropped(pos, n.p.pos)
             /\ stmt' = stmt
        ELSE /\ pos' = n.p.pos
             /\ diagnostics' = n.p.diagnostics
             /\ stmt' = Some(add_child(Unwrap(stmt),
                                       add_child(e1, Unwrap(n.v))))
             /\ skipped' = skipped

\* One iteration of `while self.is_link_start()` in parse_node_or_link.
LinkIteration ==
    /\ pc = "links"
    /\ is_link_start(P)
    /\ iter_start' = pos
    /\ LinkOutcome(parse_link(P), parse_node(parse_link(P).p))
    /\ UNCHANGED <<api, source, base_config, pc, pre, config, diagram_type,
                   code, tokens, root, parse_result, result>>

\* The link loop ends: the statement gets its span and joins the root.
LinkChainEnd ==
    /\ pc = "links"
    /\ ~is_link_start(P)
    /\ root' = Some(add_child(Unwrap(root),
            [Unwrap(stmt) EXCEPT
                !.span = Span(Unwrap(stmt).span.start, previous_span(P).end)]))
    /\ stmt' = None
    /\ iter_start' = -1
    /\ pc' = "statements"
    /\ UNCHANGED <<api, source, base_config, pre, config, diagram_type, code,
                   tokens, pos, diagnostics, skipped, parse_result, result>>

\* The statement loop ends: Err with the diagnostics if one is an error, Ok
\* with the Ast otherwise.  (The diagnostics variable keeps the list the
\* parser hands out.)
FlowchartReturn ==
    /\ pc = "statements"
    /\ is_at_end(P)
    /\ parse_result' =
         IF \E i \in 1..Len(diagnostics) : is_error(diagnostics[i])
         THEN Some(Err(diagnostics))
         ELSE Some(Ok(Ast(Unwrap(root), code)))
    /\ iter_start' = -1
    /\ pc' = "returned"
    /\ UNCHANGED <<api, source, base_config, pre, config, diagram_type, code,
                   tokens, pos, diagnostics, root, stmt, skipped, result>>

\* lib.rs parse, the match on parse_result.
Finish ==
    /\ pc = "returned"
    /\ api = "parse"
    /\ LET r == Unwrap(parse_result)
       IN  result' = Some(with_title(
                IF r.ok THEN success(diagram_type, config, Unwrap(r.ast))
                ELSE [failure(r.diagnostics) EXCEPT
                        !.diagram_type = diagram_type, !.config = config],
                Unwrap(pre).title))
    /\ pc' = "done"
    /\ UNCHANGED <<api, source, base_config, pre, config, diagram_type, code,
                   tokens, pos, diagnostics, root, stmt, iter_start, skipped,
                   parse_result>>

\* ClassParser::parse: the tokens, ClassParserImpl::parse, the Result.  The
\* root node and the diagnostics of the parser are kept in the variables.
ClassParse ==
    /\ api = "ClassParser"
    /\ pc = "class"
    /\ tokens' = class_tokenize(code)
    /\ \E r \in {class_parse(code)} :
          /\ pos' = r.p.pos
          /\ diagnostics' = r.p.diagnostics
          /\ root' = Some(r.root)
          /\ parse_result' = Some(r.result)
    /\ pc' = "returned"
    /\ UNCHANGED <<api, source, base_config, pre, config, diagram_type, code,
                   stmt, iter_start, skipped, result>>

Next ==
    \/ ClassParse
    \/ Preprocess
    \/ LibDetectType
    \/ DetectType
    \/ SpecialType
    \/ EncodeEntities
    \/ ParseDiagram
    \/ FlowchartParse
    \/ StatementIteration
    \/ LinkIteration
    \/ LinkChainEnd
    \/ FlowchartReturn
    \/ Finish

Spec == Init /\ [][Next]_vars

(***************************************************************************)
(* Properties.                                                             *)
(***************************************************************************)
Returned == IsSome(result)
Result == Unwrap(result)
Classified == api = "parse" /\ pc \notin {"start", "preprocessed"}

\* The length of the processed source: the preprocessed text, entity-encoded
\* for the flow family; the text itself when the flowchart parser is called
\* directly.
ProcessedLen ==
    IF api # "parse" THEN TextLen(source)
    ELSE IF diagram_type \in FlowKinds
         THEN TextLen(encode_entities(Unwrap(pre).code))
         ELSE TextLen(Unwrap(pre).code)

\* What the frontmatter and the directives of the source set, each on its own,
\* and the value of an optional field under base < frontmatter < directives.
OptionFields ==
    {"flowchart_renderer", "class_renderer", "state_renderer",
     "gantt_display_mode", "layout"}
FrontmatterOf(text) == extract_frontmatter(normalize_text(text))
FrontmatterConfig(text) ==
    IF FrontmatterOf(text).display_mode # NoneV
    THEN [FrontmatterOf(text).config EXCEPT
            !.gantt_display_mode = FrontmatterOf(text).display_mode]
    ELSE FrontmatterOf(text).config
DirectiveConfig(text) == extract_directives(FrontmatterOf(text).text).config
BaseConfig == IF IsSome(base_config) THEN Unwrap(base_config) ELSE DefaultConfig
ByPrecedence(f) ==
    IF DirectiveConfig(source)[f] # NoneV THEN DirectiveConfig(source)[f]
    ELSE IF FrontmatterConfig(source)[f] # NoneV
         THEN FrontmatterConfig(source)[f]
    ELSE BaseConfig[f]

\* C1: for every source and base configuration, the result of parse has
\* ok = true if and only if its AST is present and none of its diagnostics
\* has severity Error.
C1_OkIffAstAndNoError ==
    Returned =>
        (Result.ok <=>
            /\ IsSome(Result.ast)
            /\ \A i \in 1..Len(Result.diagnostics) :
                    ~is_error(Result.diagnostics[i]))
\* A parse that the flowchart parser failed: not ok, no AST, an error.
C1_ParserFailureReturned ==
    /\ Returned
    /\ Result.diagram_type \in FlowKinds
    /\ ~Result.ok
    /\ ~IsSome(Result.ast)
    /\ \E i \in 1..Len(Result.diagnostics) : is_error(Result.diagnostics[i])

\* C2: a parser never returns a truncated AST together with zero errors:
\* whenever tokens of the input were skipped without being represented in the
\* AST, the parser returns Err (with at least one Error diagnostic).
C2_NoSilentTruncation ==
    (IsSome(parse_result) /\ skipped > 0) => ~Unwrap(parse_result).ok

\* C3: in every parser loop each iteration either strictly advances the token
\* cursor or exits the loop: after an iteration that stayed in its loop the
\* cursor is beyond where the iteration began.
C3_EveryIterationAdvances == iter_start < pos

\* C4: for every diagnostic d that parse (or the flowchart parser called on
\* its own) produces, 0 <= d.span.start <= d.span.end <= the length of the
\* processed source.
SpanWithin(d, n) == 0 <= d.span.start /\ d.span.start <= d.span.end /\ d.span.end <= n
NormativeOrder ==
    <<"error", "---", "flowchart-elk", "mindmap", "architecture", "C4",
      "kanban", "classDiagram-v2", "classDiagram", "erDiagram", "gantt",
      "info", "pie", "requirement", "sequenceDiagram", "flowchart", "graph",
      "timeline", "gitGraph", "stateDiagram-v2", "stateDiagram", "journey",
      "quadrantChart", "sankey", "packet", "xychart", "block", "radar",
      "treemap">>
RuleAtoms(rule) ==
    CASE rule = "flowchart-elk" -> <<"flowchart", "-elk">>
      [] rule = "classDiagram-v2" -> <<"classDiagram", "-v2">>
      [] rule = "stateDiagram-v2" -> <<"stateDiagram", "-v2">>
      [] rule = "C4" -> <<"C4Context">>
      [] OTHER -> <<rule>>
RuleMatches(rule, text) ==
    CASE rule = "error" -> Len(text) = 1 /\ text[1] \in {"error", "ERROR", "Error"}
      [] rule = "---" -> text # <<>> /\ text[1] \in {"---", "----"}
      [] OTHER ->
            /\ Len(text) >= Len(RuleAtoms(rule))
            /\ \A i \in 1..Len(RuleAtoms(rule)) : Fold(text[i]) = RuleAtoms(rule)[i]
            /\ Len(text) > Len(RuleAtoms(rule)) =>
                    ~WordStart(text[Len(RuleAtoms(rule)) + 1])
RuleKind(rule, cfg) ==
    CASE rule = "error" -> "Error"
      [] rule = "---" -> "BadFrontmatter"
      [] rule = "flowchart-elk" -> "FlowchartElk"
      [] rule = "mindmap" -> "Mindmap"
      [] rule = "architecture" -> "Architecture"
      [] rule = "C4" -> "C4"
      [] rule = "kanban" -> "Kanban"
      [] rule = "classDiagram-v2" -> "ClassDiagram"
      [] rule = "classDiagram" ->
            IF cfg.class_renderer = "dagre-wrapper" THEN "ClassDiagram" ELSE "Class"
      [] rule = "erDiagram" -> "Er"
      [] rule = "gantt" -> "Gantt"
      [] rule = "info" -> "Info"
      [] rule = "pie" -> "Pie"
      [] rule = "requirement" -> "Requirement"
      [] rule = "sequenceDiagram" -> "Sequence"
      [] rule = "flowchart" ->
            IF cfg.flowchart_renderer = "elk" \/ cfg.layout = "elk"
            THEN "FlowchartElk" ELSE "FlowchartV2"
      [] rule = "graph" ->
            IF cfg.flowchart_renderer = "elk" THEN "FlowchartElk"
            ELSE IF cfg.flowchart_renderer = "dagre-wrapper" THEN "FlowchartV2"
            ELSE "Flowchart"
      [] rule = "timeline" -> "Timeline"
      [] rule = "gitGraph" -> "GitGraph"
      [] rule = "stateDiagram-v2" -> "StateDiagram"
      [] rule = "stateDiagram" ->
            IF cfg.state_renderer = "dagre-wrapper" THEN "StateDiagram" ELSE "State"
      [] rule = "journey" -> "Journey"
      [] rule = "quadrantChart" -> "QuadrantChart"
      [] rule = "sankey" -> "Sankey"
      [] rule = "packet" -> "Packet"
      [] rule = "xychart" -> "XyChart"
      [] rule = "block" -> "Block"
      [] rule = "radar" -> "Radar"
      [] rule = "treemap" -> "Treemap"
MatchingRules(text) ==
    {i \in 1..Len(NormativeOrder) : RuleMatches(NormativeOrder[i], text)}

\* C5: the classifier returns the kind of the first rule that matches in the
\* normative order (None when no rule matches); a later rule never decides
\* the kind when an earlier rule matches.
C5_FirstMatchingRuleDecides ==
    Classified =>
        LET matching == MatchingRules(Trim(Unwrap(pre).code))
        IN  IF matching = {} THEN diagram_type = NoneV
            ELSE diagram_type = RuleKind(NormativeOrder[Min(matching)], config)
\* `flowchart-elk` matches the flowchart-elk rule and the later flowchart rule.
C5_TwoRulesMatch ==
    /\ Classified
    /\ diagram_type = "FlowchartElk"
    /\ config.flowchart_renderer = NoneV /\ config.layout = NoneV
    /\ Cardinality(MatchingRules(Trim(Unwrap(pre).code))) = 2

\* C6: the configuration used for classification and returned by parse is
\* merged with precedence base < frontmatter < directives: for a field set by
\* more than one of the three, the directive value wins over the frontmatter
\* value, which wins over the base value.
C6_MergePrecedence ==
    /\ Classified => \A f \in OptionFields : config[f] = ByPrecedence(f)
    /\ Returned => \A f \in OptionFields : Result.config[f] = ByPrecedence(f)

\* C7: a source introduced by the `graph` keyword is classified Flowchart by
\* default, FlowchartV2 when the flowchart renderer of the merged
\* configuration is dagre-wrapper and FlowchartElk when it is elk, whether
\* the renderer comes from the base configuration, the frontmatter or an init
\* directive.
IntroducedByGraph(text) ==
    LET t == TrimStart(text)
    IN  /\ t # <<>>
        /\ t[1] \in {"graph", "GRAPH"}
        /\ Len(t) > 1 => ~WordStart(t[2])
GraphKind(renderer) ==
    CASE renderer = "elk" -> "FlowchartElk"
      [] renderer = "dagre-wrapper" -> "FlowchartV2"
      [] OTHER -> "Flowchart"
C7_GraphKeywordKinds ==
    (Classified /\ IntroducedByGraph(Unwrap(pre).code)) =>
        /\ diagram_type = GraphKind(ByPrecedence("flowchart_renderer"))
        /\ Returned =>
                Result.diagram_type = GraphKind(ByPrecedence("flowchart_renderer"))
\* A `graph` source returned as FlowchartV2: the base says dagre-d3, the
\* frontmatter elk and the directive dagre-wrapper.
C7_RendererFromDirective ==
    /\ Returned
    /\ IntroducedByGraph(Unwrap(pre).code)
    /\ Result.diagram_type = "FlowchartV2"
    /\ BaseConfig.flowchart_renderer = "dagre-d3"
    /\ FrontmatterConfig(source).flowchart_renderer = "elk"
    /\ DirectiveConfig(source).flowchart_renderer = "dagre-wrapper"

\* C8: for an empty or whitespace-only source, parse returns ok = false,
\* kind = None and exactly one diagnostic, whose code is E001.
WhitespaceOnly(text) == \A i \in 1..Len(text) : IsWs(text[i])
C8_EmptySourceIsUnknown ==
    (Returned /\ WhitespaceOnly(source)) =>
        /\ ~Result.ok
        /\ Result.diagram_type = NoneV
        /\ Len(Result.diagnostics) = 1
        /\ Result.diagnostics[1].code = "E001"
\* parse has returned for a source of blanks and newlines.
C8_WhitespaceSourceReturned ==
    Returned /\ source # <<>> /\ WhitespaceOnly(source)

\* C9: for a source equal to the literal `error` in any letter case, parse
\* returns a result whose kind is Error and whose diagnostics contain E301.
C9_ErrorLiteralKind ==
    (Returned /\ Len(source) = 1 /\ source[1] \in {"error", "ERROR", "Error"}) =>
        /\ Result.diagram_type = "Error"
        /\ \E i \in 1..Len(Result.diagnostics) : Result.diagnostics[i].code = "E301"

\* C10: for a source with a leading `---` and no closing `---`, parse returns
\* a result whose kind is BadFrontmatter and whose diagnostics contain E101.
C10_UnclosedFrontmatterKind ==
    (/\ Returned
     /\ source # <<>>
     /\ source[1] = "---"
     /\ \A i \in 2..Len(source) : source[i] # "---") =>
        /\ Result.diagnostics # <<>>
        /\ Result.diagram_type = "BadFrontmatter"
        /\ \E i \in 1..Len(Result.diagnostics) : Result.diagnostics[i].code = "E101"

\* C11: the pseudo-kinds Error and BadFrontmatter are handled before
\* dispatch: whenever parse_diagram is about to be called, a diagram parser
\* is running or one has returned, the kind is neither Error nor
\* BadFrontmatter.
Dispatched ==
    \/ pc \in {"encoded", "flowchart", "statements", "links", "returned"}
    \/ IsSome(parse_result)
C11_SpecialKindsNeverDispatched ==
    Dispatched => diagram_type \notin {"Error", "BadFrontmatter"}
\* parse has returned for a source classified BadFrontmatter, and no parser
\* has run.
C11_BadFrontmatterReturnedUndispatched ==
    /\ Returned
    /\ diagram_type = "BadFrontmatter"
    /\ ~Dispatched

\* The parser that ran, its input, and whether the first significant atom of
\* the input (the first that is neither a blank nor a newline) is an
\* introducer of the parser's kind.
ParserCalled == IF api = "FlowchartParser" THEN "Flowchart" ELSE diagram_type
IntroducerKeywords(dt) ==
    CASE dt \in FlowKinds -> {"graph", "flowchart"}
      [] dt = "Sequence" -> {"sequenceDiagram"}
      [] dt \in {"Class", "ClassDiagram"} -> {"classDiagram"}
      [] dt \in {"State", "StateDiagram"} -> {"stateDiagram"}
      [] dt = "Er" -> {"erDiagram"}
      [] dt = "Gantt" -> {"gantt"}
      [] dt = "Journey" -> {"journey"}
      [] dt = "Pie" -> {"pie"}
      [] dt = "GitGraph" -> {"gitGraph"}
IntroducerFirst(dt, text) ==
    /\ TrimStart(text) # <<>>
    /\ Fold(TrimStart(text)[1]) \in IntroducerKeywords(dt)

\* C12: every diagram parser treats a missing introducer as fatal: if the
\* first significant token of its input is not the kind's introducer, the
\* parser returns Err, without an AST, with an E303 ExpectedToken or E301
\* ParserError diagnostic.
C12_MissingIntroducerIsFatal ==
    (/\ IsSome(parse_result)
     /\ ParserCalled \in FlowKinds \cup ParserKinds
     /\ ~IntroducerFirst(ParserCalled, code)) =>
        /\ ~Unwrap(parse_result).ok
        /\ ~IsSome(Unwrap(parse_result).ast)
        /\ \E i \in 1..Len(Unwrap(parse_result).diagnostics) :
              /\ Unwrap(parse_result).diagnostics[i].code \in {"E303", "E301"}
              /\ is_error(Unwrap(parse_result).diagnostics[i])
\* The ER parser has returned for an input whose first token, after blanks
\* and newlines, is not `erDiagram`.
C12_ErParserWithoutIntroducer ==
    /\ IsSome(parse_result)
    /\ api = "parse_diagram"
    /\ diagram_type = "Er"
    /\ TrimStart(code) # <<>>
    /\ ~IntroducerFirst("Er", code)
    /\ Unwrap(parse_result).diagnostics[1].span.start > 0

\* The nodes the flowchart parser has parsed so far: those of the root and
\* of the statement whose link chain is being read (a node is a statement, the
\* first node of an edge statement, or the target under one of its edges).
ChildrenOf(ns) == UNION {{n.children[i] : i \in 1..Len(n.children)} : n \in ns}
Descendants(o) ==
    IF IsSome(o)
    THEN ChildrenOf({Unwrap(o)}) \cup ChildrenOf(ChildrenOf({Unwrap(o)}))
            \cup ChildrenOf(ChildrenOf(ChildrenOf({Unwrap(o)})))
    ELSE {}
ParsedNodes == {n \in Descendants(root) \cup Descendants(stmt) : n.kind = "Node"}
HasProperty(n, key, value) ==
    \E i \in 1..Len(n.properties) : n.properties[i] = <<key, value>>
\* The span of the token after the id of node n: its opening delimiter.
OpenerOf(n) ==
    tokens[(CHOOSE k \in 1..Len(tokens) : tokens[k].span.start = n.span.start) + 1].span
HasDiagnostic(diags, dcode, span) ==
    \E i \in 1..Len(diags) : diags[i].code = dcode /\ diags[i].span = span

\* C13: in the flow family a node shape with an empty body (`[]`, `()`, `{}`)
\* is rejected: for every node parsed with an empty label the parser holds an
\* E301 ParserError diagnostic whose span is the span of the opening
\* delimiter, the parser returns Err with it, and parse returns it with
\* ok = false.
C13_EmptyShapeRejected ==
    \A n \in ParsedNodes :
        HasProperty(n, "label", "") =>
            /\ HasDiagnostic(diagnostics, "E301", OpenerOf(n))
            /\ IsSome(parse_result) =>
                  /\ ~Unwrap(parse_result).ok
                  /\ HasDiagnostic(Unwrap(parse_result).diagnostics, "E301",
                                   OpenerOf(n))
            /\ Returned =>
                  /\ ~Result.ok
                  /\ HasDiagnostic(Result.diagnostics, "E301", OpenerOf(n))
\* parse has returned for a source in which the target of a link is a node
\* with the empty shape `{}`.
C13_EmptyRhombusTargetReturned ==
    /\ Returned
    /\ \E n \in ParsedNodes :
          /\ HasProperty(n, "label", "")
          /\ HasProperty(n, "shape", "Rhombus")
          /\ n \notin ChildrenOf({Unwrap(root)})

\* C14: flow shape detection is deterministic from the opening delimiter and
\* its closers: a node written `(((x)))` parses, without diagnostics, to a
\* node whose shape is DoubleCircle and no other shape.  Here: when the
\* source is a declaration and the one statement `A(((x)))`, the parser
\* returns Ok without diagnostics and its one node has the shape DoubleCircle.
TripleParenNode == <<"A", "((", "(", "x", "))", ")">>
C14_TripleParenIsDoubleCircle ==
    (/\ IsSome(parse_result)
     /\ \E d \in Declarations : code = d \o <<"\n">> \o TripleParenNode) =>
        /\ Unwrap(parse_result).ok
        /\ Unwrap(parse_result).diagnostics = <<>>
        /\ diagnostics = <<>>
        /\ \E n \in ParsedNodes :
              /\ n.text = "A"
              /\ HasProperty(n, "shape", "DoubleCircle")
              /\ HasProperty(n, "label", "x")
        /\ \A n \in ParsedNodes :
              n.text = "A" =>
                \A i \in 1..Len(n.properties) :
                    n.properties[i][1] = "shape" =>
                        n.properties[i][2] = "DoubleCircle"

\* C15: every diagnostic returned by parse has the detected kind attached
\* whenever a kind was detected for the source.
C15_DiagnosticsCarryDetectedKind ==
    (Returned /\ diagram_type # NoneV) =>
        \A i \in 1..Len(Result.diagnostics) :
            Result.diagnostics[i].diagram_type = diagram_type

\* C16: the diagnostics list returned by parse (and by the flowchart parser)
\* is in source order: span start offsets are non-decreasing along the list.
InSourceOrder(diags) ==
    \A i, j \in 1..Len(diags) : i < j => diags[i].span.start <= diags[j].span.start
Normalised == normalize_text(source)
Block == FRONTMATTER_REGEX(Normalised)
Extracted == extract_frontmatter(Normalised)
Untouched(r, text) ==
    /\ r.text = text
    /\ r.title = NoneV
    /\ r.display_mode = NoneV
    /\ r.config = DefaultConfig

\* C17 as stated: frontmatter extraction returns the input string unchanged
\* (block not removed, no title, no config) whenever the enclosed content
\* fails to parse as YAML or its root is not a mapping.
C17_FallbackKeepsInput ==
    (api = "parse" /\ pc # "start" /\ IsSome(Block)
        /\ YamlRoot(Unwrap(Block).content) # "mapping") =>
        Untouched(Extracted, Normalised)

\* C17 as amended: when the enclosed content fails to parse as YAML the input
\* string is returned unchanged (block not removed, no title, no config);
\* when it parses to a root that is not a mapping the block is removed and no
\* title, display mode or config is taken from it.
C17_FallbackByYamlOutcome ==
    (api = "parse" /\ pc # "start" /\ IsSome(Block)) =>
        /\ YamlRoot(Unwrap(Block).content) = "error" =>
              /\ Untouched(Extracted, Normalised)
              /\ Unwrap(pre).title = NoneV
        /\ YamlRoot(Unwrap(Block).content) = "other" =>
              /\ Untouched(Extracted, Drop(Normalised, Unwrap(Block).end))
              /\ Len(Extracted.text) < Len(Normalised)
              /\ Unwrap(pre).title = NoneV
\* A source was preprocessed whose frontmatter block holds YAML that does not
\* parse (a repeated key), followed by a diagram.
C17_UnparsableYamlPreprocessed ==
    /\ api = "parse" /\ pc = "preprocessed"
    /\ IsSome(Block)
    /\ YamlRoot(Unwrap(Block).content) = "error"
    /\ Len(Normalised) > Unwrap(Block).end


\* The text extract_directives is given by preprocess, its result, and the
\* result of applying extract_directives once more to the text it returned.
StrippedOnce == extract_directives(FrontmatterOf(source).text)
StrippedTwice == extract_directives(StrippedOnce.text)

\* C18: directive extraction is idempotent on already-stripped sources:
\* applying extract_directives to the text output of extract_directives
\* returns that text unchanged and finds no directives (no span, no init
\* config, no wrap).
C18_DirectiveExtractionIdempotent ==
    (api = "parse" /\ pc # "start") =>
        /\ StrippedTwice.text = StrippedOnce.text
        /\ find_directive_spans(StrippedOnce.text, 1) = <<>>
        /\ StrippedTwice.config = DefaultConfig
        /\ ~StrippedTwice.wrap


\* The kinds and bodies the classified source is the round-trip text of.
RoundTripOf(k, b) == source = introducer(k) \o <<"\n">> \o b
TypeReturned == api = "detect_type" /\ pc = "done"
IsBlank(b) == \A i \in 1..Len(b) : IsWs(b[i])

MergeSelf == IF IsSome(base_config) THEN Unwrap(base_config) ELSE DefaultConfig
MergeOther == Unwrap(pre).config

\* C20: configuration merge is right-biased per field: after a.merge(b), each
\* optional scalar field equals b's value if b has it set and otherwise keeps
\* a's prior value; no field (the wrap flag included) is changed by an unset
\* incoming field.
C20_MergeRightBiasedPerField ==
    (api = "parse" /\ pc # "start") =>
        /\ \A f \in OptionFields :
              /\ MergeOther[f] # NoneV => config[f] = MergeOther[f]
              /\ MergeOther[f] = NoneV => config[f] = MergeSelf[f]
        /\ ~MergeOther.wrap => config.wrap = MergeSelf.wrap
\* A base configuration was merged with the configuration of a source that
\* sets one of the fields the base sets, to another value, and leaves another
\* field of the base unset.
C20_OverlappingConfigsMerged ==
    /\ api = "parse" /\ pc = "preprocessed"
    /\ \E f, g \in OptionFields :
          /\ MergeSelf[f] # NoneV /\ MergeOther[f] \notin {NoneV, MergeSelf[f]}
          /\ MergeSelf[g] # NoneV /\ MergeOther[g] = NoneV


\* The kinds the classifier returns for which parse_diagram has no parser.
StubKinds == all \ ({"Error", "BadFrontmatter"} \cup FlowKinds \cup ParserKinds)
StubRoot(node, slug) ==
    /\ node.kind = "Root"
    /\ node.children = <<>>
    /\ node.properties = <<<<"diagram_type", slug>>, <<"status", "stub">>>>

\* C21: for every kind the classifier can return that has no full parser, the
\* dispatcher returns Ok with an AST that is a single Root node carrying
\* diagram_type = the kind's slug and status = stub, and no diagnostics,
\* whatever the body of the source is; parse then reports ok.
C21_StubKindsGetStubAst ==
    (api = "parse" /\ diagram_type \in StubKinds) =>
        /\ pc \in {"returned", "done"} =>
              /\ Unwrap(parse_result).ok
              /\ Unwrap(parse_result).diagnostics = <<>>
              /\ StubRoot(Unwrap(Unwrap(parse_result).ast).root,
                          as_str(diagram_type))
        /\ pc = "done" =>
              /\ Unwrap(result).ok
              /\ Unwrap(result).diagnostics = <<>>
              /\ StubRoot(Unwrap(Unwrap(result).ast).root, as_str(diagram_type))
\* parse has returned for a mindmap source whose body is flowchart text.
C21_MindmapWithBodyReturned ==
    /\ api = "parse" /\ pc = "done"
    /\ diagram_type = "Mindmap"
    /\ \E i \in 1..Len(source) : source[i] = "-->"
    /\ Unwrap(result).ok


\* The token the next iteration of the statement loop starts at, and whether a
\* line end (a Newline token, or the `;` that separates statements like one)
\* lies between a diagnostic and that token.
NextStatementToken == peek(skip_newlines(P))
NewlineBetween(from, to) ==
    \E i \in 1..Len(tokens) :
        /\ tokens[i].kind \in {"Newline", "Semicolon"}
        /\ from <= tokens[i].span.start
        /\ tokens[i].span.start < to

\* C22: recovery is line-based: after a local error the parser records a
\* diagnostic and skips to the next newline, so the next statement it attempts
\* begins at the first token after that newline, never at a token in the
\* middle of the failed line: a line end lies between every diagnostic and
\* the token the statement loop goes on with.
C22_RecoverySkipsFailedLine ==
    (pc = "statements" /\ ~is_at_end(skip_newlines(P))) =>
        \A i \in 1..Len(diagnostics) :
            diagnostics[i].span.start < NextStatementToken.span.start =>
                NewlineBetween(diagnostics[i].span.start,
                               NextStatementToken.span.start)


\* The `;` that separate two statements of the parsed code (a `;` followed by
\* a blank), and the code with one of them replaced by a newline.
SemicolonSeparators ==
    {i \in 1..(Len(code) - 1) : code[i] = ";" /\ code[i + 1] = " "}
WithNewlineAt(i) == [code EXCEPT ![i] = "\n"]
FlowchartReturned ==
    /\ pc = "returned"
    /\ api \in {"parse", "FlowchartParser"}
    /\ IsSome(root)
    /\ Unwrap(root).children # <<>>

\* C23: in the flow family `;` is a statement separator equivalent to newline:
\* replacing the newline between two statements by `;` (including after
\* style/classDef/linkStyle statements and during error recovery) changes
\* neither the statements that end up in the AST nor the diagnostics reported.
C23_SemicolonEquivalentToNewline ==
    FlowchartReturned =>
        \A i \in SemicolonSeparators :
            /\ FlowchartStatements(WithNewlineAt(i)).returns
            /\ FlowchartStatements(WithNewlineAt(i)).children
                 = Tail(Unwrap(root).children)
            /\ FlowchartStatements(WithNewlineAt(i)).diagnostics = diagnostics

\* The parse of the code in the variables is the parse FlowchartStatements
\* computes for it.
FlowchartStatementsAgree ==
    FlowchartReturned =>
        /\ FlowchartStatements(code).returns
        /\ FlowchartStatements(code).children = Tail(Unwrap(root).children)
        /\ FlowchartStatements(code).diagnostics = diagnostics


\* Whether the parser of the kind can return Ok for a code.
CanParseOk(dt, text) == \E r \in DiagramParserResults(dt, text) : r.ok

\* C24: for every supported kind (class and state diagrams included), the
\* outcome of parse is unchanged when the introducer line is preceded by blank
\* lines or by a directive or comment line: a source that parses ok still
\* parses ok with the same kind.  The preprocessed code then begins with the
\* blank lines that are left of those lines, so the parser that accepts the
\* code without them must accept the code with them.
C24_LeadingLinesKeepOutcome ==
    (api = "parse" /\ pc = "returned" /\ diagram_type \in ParserKinds) =>
        /\ detect_type(TrimStart(code), config) = diagram_type
        /\ CanParseOk(diagram_type, TrimStart(code)) =>
              CanParseOk(diagram_type, code)


\* C25: detect_type(S) agrees with parse: for every source S for which
\* parse(S, None) reports a kind, detect_type(S) returns that same kind,
\* including when S sets the flowchart renderer or layout in frontmatter or an
\* init directive.
C25_DetectTypeAgreesWithParse ==
    (api = "parse" /\ pc = "done" /\ base_config = None
        /\ Unwrap(result).diagram_type # NoneV) =>
        lib_detect_type(source) = Unwrap(result).diagram_type


\* The class parser has returned for a code that begins with the declaration;
\* the `{` and `}` of the code.
ClassParserReturned ==
    /\ api = "ClassParser"
    /\ pc = "returned"
    /\ tokens # <<>> /\ tokens[1].kind = "ClassDiagram"
Count(a) == Cardinality({i \in 1..Len(code) : code[i] = a})
IsE3xx(d) ==
    /\ d.code \in {"E301", "E302", "E303", "E304", "E305", "E306", "E307"}
    /\ is_error(d)

\* C26: a missing closer is a structural error: if a `{` block (class body,
\* namespace body) is still open when the input ends, the parser records an
\* Error-severity E3xx diagnostic and the parse returns Err.
C26_MissingCloserIsError ==
    (ClassParserReturned /\ Count("{") > Count("}")) =>
        /\ ~Unwrap(parse_result).ok
        /\ \E i \in 1..Len(Unwrap(parse_result).diagnostics) :
              IsE3xx(Unwrap(parse_result).diagnostics[i])


\* Namespace blocks whose statements and closing `}` are on their own lines,
\* with the number of statements they enclose.
NamespaceBlocks ==
    {[text |-> <<"namespace", " ", "N", " ", "{", "\n", " ", "class", " ", "A",
                 "\n", "}">>, enclosed |-> 1],
     [text |-> <<"namespace", " ", "N", " ", "{", "\n", "A", " ", "<|--", " ",
                 "B", "\n", "class", " ", "A", "\n", "}">>, enclosed |-> 2],
     [text |-> <<"namespace", " ", "N", " ", "{", "\n", " ", "class", " ", "A",
                 " ", "{", "\n", "x", "\n", "}", "\n", "}">>, enclosed |-> 1]}
AfterNamespace ==
    {<<>>, <<"\n", "class", " ", "A">>, <<"\n", "A", " ", "<|--", " ", "B">>}

\* C27: a class-diagram block `namespace <Name> { statements }` whose
\* statements and closing `}` are on their own lines parses without
\* diagnostics to one Subgraph container whose children are exactly the
\* enclosed statements; statements after the `}` are not children of it.
C27_NamespaceIsContainer ==
    ClassParserReturned =>
        \A ns \in NamespaceBlocks, after \in AfterNamespace :
            code = <<"classDiagram", "\n">> \o ns.text \o after =>
                /\ diagnostics = <<>>
                /\ Unwrap(parse_result).ok
                /\ Len(Unwrap(root).children) =
                      IF after = <<>> THEN 2 ELSE 3
                /\ Unwrap(root).children[2].kind = "Subgraph"
                /\ Len(Unwrap(root).children[2].children) = ns.enclosed


\* The two spellings of a labelled link from A to B, and the runs whose code
\* is a `graph TD` or `flowchart LR` declaration followed by one of them.
LabelledLinks ==
    {<<"A", " ", "-->", "|", "t", "|", " ", "B">>,
     <<"A", " ", "--", " ", "t", " ", "-->", " ", "B">>}
OnlyLabelledLink ==
    \E d \in {<<"graph", " ", "TD">>, <<"flowchart", " ", "LR">>},
       s \in LabelledLinks : code = d \o <<"\n">> \o s
LinkStatement == Unwrap(root).children[2]

\* C28: both edge-label syntaxes are accepted and equivalent: `A -->|t| B` and
\* `A -- t --> B` each parse without diagnostics to a single link from A to B
\* whose label is t; the label text never becomes a node.
C28_LabelSyntaxesEquivalent ==
    (FlowchartReturned /\ OnlyLabelledLink) =>
        /\ diagnostics = <<>>
        /\ Len(Unwrap(root).children) = 2
        /\ LinkStatement.kind = "Edge"
        /\ Len(LinkStatement.children) = 2
        /\ LinkStatement.children[1].kind = "Node"
        /\ LinkStatement.children[1].text = "A"
        /\ LinkStatement.children[2].kind = "Edge"
        /\ HasProperty(LinkStatement.children[2], "label", "t")
        /\ Len(LinkStatement.children[2].children) = 1
        /\ LinkStatement.children[2].children[1].text = "B"


\* C29: the config field of every ParseResult equals the configuration merged
\* from the base argument, the frontmatter and the directives of the source,
\* in every outcome: success, parser failure, unknown kind, and the Error and
\* BadFrontmatter pseudo-kinds.
C29_ResultCarriesMergedConfig ==
    Returned => Result.config = merge(BaseConfig, preprocess(source).config)


\* The diagnostics of a returned parser with a non-empty span, formatted
\* against the code the parser was given; the line and column the formatter
\* works with.
ParserReturned ==
    pc = "returned" /\ api \in {"FlowchartParser", "ClassParser"}
SpannedDiagnostics ==
    {i \in 1..Len(diagnostics) :
        diagnostics[i].span.start < diagnostics[i].span.end}
ContextOf(i) == get_source_context(diagnostics[i].span, code)
LineOf(i) ==
    StripCr(Lines(code)[offset_to_line_col(code, diagnostics[i].span.start).line])
ColOf(i) == offset_to_line_col(code, diagnostics[i].span.start).col
CaretCount(i) ==
    Max({1, Min({diagnostics[i].span.end - diagnostics[i].span.start,
                 TextLen(LineOf(i)) - ColOf(i) + 1})})

\* C30: for a diagnostic with a non-empty span, the caret row of the formatter
\* has exactly min(span.length, line_length - col + 1) carets and at least one,
\* for every column the span can start at, the end of its line (a newline
\* token) included; the computation never underflows or panics.
C30_CaretRow ==
    ParserReturned =>
        \A i \in SpannedDiagnostics :
            \A o \in ContextOf(i) :
                /\ ~o.panics
                /\ IsSome(o.context) =>
                      Unwrap(o.context).carets = CaretCount(i)

====
